---- MODULE Spec2Model ----
(***************************************************************************)
(* Storage core of the note overlay extension: the Storage Facade          *)
(* (src/storage/index.ts), the Legacy Store Migrator (src/storage/         *)
(* migrate.ts), the Local Structured Store (src/storage/db.ts) and the     *)
(* Storage Broker (extension/background.ts).                               *)
(*                                                                         *)
(* JavaScript values are modelled as follows.  A string is a TLA+ string;  *)
(* a plain object is the set of its <<key, value>> pairs; a JSON text is   *)
(* the sequence of its tokens; a table is the set of its rows.  The        *)
(* updatedAt timestamp of a note row is never read by any code and is not  *)
(* modelled.                                                               *)
(***************************************************************************)
EXTENDS Integers, Sequences, FiniteSets, TLC

\* ------------------------------------------------------------------ bounds

\* Spec, both contexts running concurrently: facade calls issued, failures
\* the environment injects, restarts (page reloads, service worker restarts)
MaxCalls == 2
MaxFaults == 2
MaxRestarts == 1
\* SpecExt, the extension page alone
MaxExtCalls == 2
MaxExtFaults == 2
MaxExtRestarts == 1
\* SpecSeq, awaited calls without failures
MaxSeqCalls == 3
\* the specification with fairness
MaxLiveCalls == 1
MaxLiveFaults == 1
MaxLiveRestarts == 1
\* SpecKey, awaited calls with wider arguments
MaxKeyCalls == 2
MaxKeyFaults == 1

\* ------------------------------------------------------- program constants

\* the fixed primary key of every row: { id: 1, ... }, get(1)
RowId == 1

Contexts == {"ext", "cs"}
Tasks == {"e1", "e2", "c1", "c2"}

Ctx(t) == IF t \in {"e1", "e2"} THEN "ext" ELSE "cs"

Ops == {"loadNote", "saveNote", "loadLayout", "saveLayout",
        "loadButtonLayout", "saveButtonLayout"}

IsSave(op) == op \in {"saveNote", "saveLayout", "saveButtonLayout"}

IsNoteOp(op) == op \in {"loadNote", "saveNote"}

\* the table an operation works on
TableOf(op) ==
    CASE op \in {"loadNote", "saveNote"} -> "notes"
      [] op \in {"loadLayout", "saveLayout"} -> "layout"
      [] OTHER -> "buttonLayout"

\* a facade that keeps both layouts under the key of the panel layout
LsKey_Shared(op) == IF IsNoteOp(op) THEN "cs_note" ELSE "cs_layout"

\* the page-local key an operation falls back to
LsKey(op) ==
    CASE op \in {"loadNote", "saveNote"} -> "cs_note"
      [] op \in {"loadLayout", "saveLayout"} -> "cs_layout"
      [] OTHER -> "cs_button_layout"

MIGRATION_FLAG_KEY == "cs_migrated_to_dexie"

\* a facade that sends every request under the type of loadNote
MsgType_AllGetNote(op) == "storage:getNote"

\* the message type an operation sends to the broker
MsgType(op) ==
    CASE op = "loadNote" -> "storage:getNote"
      [] op = "saveNote" -> "storage:saveNote"
      [] op = "loadLayout" -> "storage:getLayout"
      [] op = "saveLayout" -> "storage:saveLayout"
      [] op = "loadButtonLayout" -> "storage:getButtonLayout"
      [] OTHER -> "storage:saveButtonLayout"

\* ------------------------------------------------------------------ inputs

EmptyObj == {}

FullLayout == {<<"x", 10>>, <<"y", 20>>, <<"width", 100>>, <<"height", 200>>,
               <<"visible", TRUE>>}
PartialLayout == {<<"visible", FALSE>>}

NoteInputs == {"a", "b"}
LayoutInputs == {FullLayout, PartialLayout}
ButtonInputs == {{<<"x", 5>>, <<"y", 6>>}}

\* what the legacy synchronized store may hold (distinct from every input
\* of a save, so that a migrated row can be told from a saved one)
LegacyContent == "old"
LegacyLayout == {<<"x", 1>>, <<"y", 2>>, <<"visible", TRUE>>}
LegacyButton == {<<"x", 3>>, <<"y", 4>>}
LegacyKeys == {"content", "layout", "buttonLayout"}

\* the sets of keys the legacy store holds at the start: none (a fresh
\* install), the note alone, all three
LegacyInits == {{}, {"content"}, LegacyKeys}

LegacyValue(k) ==
    CASE k = "content" -> LegacyContent
      [] k = "layout" -> LegacyLayout
      [] OTHER -> LegacyButton

ArgsOf(op) ==
    CASE op = "saveNote" -> NoteInputs
      [] op = "saveLayout" -> LayoutInputs
      [] op = "saveButtonLayout" -> ButtonInputs
      [] OTHER -> {EmptyObj}

\* a truncated JSON text left under a page-local key
Garbage == <<"{">>

\* ------------------------------------------------------------ plain objects

Has(o, k) == \E p \in o : p[1] = k

Get(o, k) == (CHOOSE p \in o : p[1] = k)[2]

\* { ...base, ...over }
Spread(base, over) == over \cup {p \in base : ~Has(over, p[1])}

\* const { id, ...rest } = obj
stripId(o) == {p \in o : p[1] # "id"}

\* JSON.stringify of a plain object: its pairs in key order between braces
KeyOrder == <<"id", "x", "y", "width", "height", "visible", "minimized",
              "content", "error", "ok">>

JsonStringify(o) ==
    LET ks == SelectSeq(KeyOrder, LAMBDA k : Has(o, k))
    IN  <<"{">> \o [i \in 1..Len(ks) |-> <<ks[i], Get(o, ks[i])>>] \o <<"}">>

\* JSON.parse: throws (ok = FALSE) on a text that is not a complete object
JsonParse(s) ==
    IF Len(s) >= 2 /\ s[1] = "{" /\ s[Len(s)] = "}"
    THEN [ok |-> TRUE, val |-> {s[i] : i \in 2..(Len(s) - 1)}]
    ELSE [ok |-> FALSE, val |-> EmptyObj]

\* ------------------------------------------------------------------ tables

\* table.get(key): the set holding the row found, empty when there is none
TableGet(tbl, key) == {r \in tbl : Get(r, "id") = key}

\* a put that merges the fields given into the row stored
TablePut_Merges(tbl, row) ==
    IF tbl = {} THEN {row} ELSE {Spread(CHOOSE r \in tbl : TRUE, row)}

\* a put that behaves as add: a row whose key is taken is not written
TablePut_KeepsOld(tbl, row) ==
    IF \E r \in tbl : Get(r, "id") = Get(row, "id") THEN tbl ELSE tbl \cup {row}

\* table.put(row): insert, or replace the row with the same primary key
TablePut(tbl, row) == {r \in tbl : Get(r, "id") # Get(row, "id")} \cup {row}

EmptyDb == [notes |-> {}, layout |-> {}, buttonLayout |-> {}]

\* ------------------------------------------------------ page-local storage

\* localStorage is a partial map from keys to strings
LsHas(ls, k) == k \in DOMAIN ls

\* a setItem that stores nothing
LsSet_Drops(ls, k, v) == ls

LsSet(ls, k, v) == [x \in (DOMAIN ls) \cup {k} |-> IF x = k THEN v ELSE ls[x]]

EmptyLs == [x \in {} |-> ""]

\* ------------------------------------------------------------------ facade

\* the row written for a note / for a layout: { id: 1, content } and
\* { id: 1, ...layout }
NoteRow(content) == {<<"id", RowId>>, <<"content", content>>}

LayoutRow(layout) == Spread({<<"id", RowId>>}, layout)

\* what a load returns, or a save does, when nothing can be read or written
DefaultOf(op) == IF op = "loadNote" THEN "" ELSE EmptyObj

\* a detector that takes every page for an extension page
isExtensionPage_Always(c) == TRUE

isExtensionPage(c) == c = "ext"

\* an initialization that does not consult the memoized handle
ensureDbInitialized_NoMemo(p, c, openThrows) ==
    IF ~isExtensionPage(c) THEN [promise |-> "resolved", opens |-> 0]
    ELSE IF openThrows THEN [promise |-> "rejected", opens |-> 1]
    ELSE [promise |-> "opening", opens |-> 1]

\* ensureDbInitialized up to its first suspension.  p is dbInitPromise.  A
\* handle that is set is returned as it is.  Otherwise the async body runs:
\* outside an extension page it finishes at once; in one it calls db.open().
\* When that call throws before returning a promise, the catch block nulls
\* the handle and rethrows, and the assignment that follows stores the
\* rejected promise in the handle.
ensureDbInitialized(p, c, openThrows) ==
    IF p # "null" THEN [promise |-> p, opens |-> 0]
    ELSE IF ~isExtensionPage(c) THEN [promise |-> "resolved", opens |-> 0]
    ELSE IF openThrows THEN [promise |-> "rejected", opens |-> 1]
    ELSE [promise |-> "opening", opens |-> 1]

\* a caller that goes on while the promise is still pending
AwaitPc_NoGate(p) ==
    CASE p = "rejected" -> "initFailed"
      [] OTHER -> "initOk"

\* where a caller awaiting promise p continues
AwaitPc(p) ==
    CASE p = "resolved" -> "initOk"
      [] p = "rejected" -> "initFailed"
      [] OTHER -> "awaitInit"

\* the privileged branch of an operation's try block: one get or put
DirectAccess(op, arg, d, fails) ==
    IF fails THEN [threw |-> TRUE, val |-> DefaultOf(op), db |-> d]
    ELSE CASE op = "loadNote" ->
                LET rows == TableGet(d.notes, RowId)
                    c == IF rows = {} THEN ""
                         ELSE LET n == CHOOSE r \in rows : TRUE
                              IN  IF Has(n, "content") THEN Get(n, "content") ELSE ""
                IN  [threw |-> FALSE, val |-> c, db |-> d]
           [] op = "saveNote" ->
                [threw |-> FALSE, val |-> EmptyObj,
                 db |-> [d EXCEPT !.notes = TablePut(@, NoteRow(arg))]]
           [] op \in {"loadLayout", "loadButtonLayout"} ->
                LET rows == TableGet(d[TableOf(op)], RowId)
                IN  [threw |-> FALSE,
                     val |-> IF rows = {} THEN EmptyObj
                             ELSE stripId(CHOOSE r \in rows : TRUE),
                     db |-> d]
           [] OTHER ->
                [threw |-> FALSE, val |-> EmptyObj,
                 db |-> [d EXCEPT ![TableOf(op)] = TablePut(@, LayoutRow(arg))]]

\* callBackground: the promise around chrome.runtime.sendMessage.  It
\* rejects when sendMessage throws or the callback sees lastError, and
\* resolves with whatever response the callback is given otherwise.
callBackground(lastError, response) ==
    IF lastError THEN [rejected |-> TRUE, val |-> EmptyObj]
    ELSE [rejected |-> FALSE, val |-> response]

\* a message sent without its payload
MessageOf_NoPayload(op, arg) == [type |-> MsgType(op), payload |-> EmptyObj]

\* the message an operation sends: { type, payload }
MessageOf(op, arg) ==
    [type |-> MsgType(op),
     payload |-> CASE op = "saveNote" -> {<<"content", arg>>}
                   [] op \in {"saveLayout", "saveButtonLayout"} -> {<<"layout", arg>>}
                   [] OTHER -> EmptyObj]

\* what the delegated branch returns for response res:
\* res?.content ?? '' for a note, res ?? {} for a layout
DelegatedResult(op, res) ==
    CASE op = "loadNote" -> IF Has(res, "content") THEN Get(res, "content") ELSE ""
      [] op \in {"loadLayout", "loadButtonLayout"} -> res
      [] OTHER -> EmptyObj

\* the inner try block of an operation's catch: the page-local read or write
FallbackBody(op, arg, ls, lsFails) ==
    IF lsFails THEN [threw |-> TRUE, val |-> DefaultOf(op), ls |-> ls]
    ELSE CASE op = "loadNote" ->
                [threw |-> FALSE,
                 val |-> IF LsHas(ls, "cs_note") THEN ls["cs_note"] ELSE "",
                 ls |-> ls]
           [] op = "saveNote" ->
                [threw |-> FALSE, val |-> EmptyObj, ls |-> LsSet(ls, "cs_note", arg)]
           [] op \in {"loadLayout", "loadButtonLayout"} ->
                IF ~LsHas(ls, LsKey(op)) \/ ls[LsKey(op)] = <<>>
                THEN [threw |-> FALSE, val |-> EmptyObj, ls |-> ls]
                ELSE LET parsed == JsonParse(ls[LsKey(op)])
                     IN  [threw |-> ~parsed.ok, val |-> parsed.val, ls |-> ls]
           [] OTHER ->
                [threw |-> FALSE, val |-> EmptyObj,
                 ls |-> LsSet(ls, LsKey(op), JsonStringify(arg))]

\* an inner catch that returns what the failed read or write left behind
FallbackCatch_KeepsPartial(r, op, ls) ==
    IF r.threw
    THEN [threw |-> FALSE,
          val |-> DefaultOf(op),
          ls |-> IF IsSave(op) THEN LsSet(ls, LsKey(op), <<>>) ELSE ls]
    ELSE r

\* an inner catch that lets the exception through
FallbackCatch_Rethrows(r, op, ls) == r

\* the inner catch: swallow, return the default, leave the store alone
FallbackCatch(r, op, ls) ==
    IF r.threw THEN [threw |-> FALSE, val |-> DefaultOf(op), ls |-> ls] ELSE r

\* an operation's catch block as a whole; path tells where it returned from
Fallback(op, arg, ls, lsFails) ==
    LET body == FallbackBody(op, arg, ls, lsFails)
        r == FallbackCatch(body, op, ls)
    IN  [threw |-> r.threw, val |-> r.val, ls |-> r.ls,
         path |-> IF body.threw THEN "swallowed" ELSE "fallback"]

\* ------------------------------------------------------------------ broker

ErrorResponse(text) == {<<"error", text>>}

Ack == {<<"ok", TRUE>>}

\* a listener that leaves the two save cases without a sendResponse call
Answered_SavesSilent(type) ==
    type \notin {"storage:saveNote", "storage:saveLayout", "storage:saveButtonLayout"}

\* whether the listener calls sendResponse for a storage message: every case
\* of the switch does, its default does, and so does the catch
Answered(type) == TRUE

\* an ensureDbOpen that raises the flag before it awaits the open
ensureDbOpen_FlagFirst(opened, openFails) ==
    [opened |-> TRUE, threw |-> ~opened /\ openFails]

\* ensureDbOpen: nothing when the flag is up; otherwise db.open() is awaited
\* and the flag is raised after it, so a rejected open leaves it down
ensureDbOpen(opened, openFails) ==
    [opened |-> opened \/ ~openFails, threw |-> ~opened /\ openFails]

\* ensureDbOpen followed by the storage switch of the message listener, and
\* the catch around both; opened is dbOpened
BrokerStorage(type, payload, d, opened, openFails, opFails) ==
    IF ensureDbOpen(opened, openFails).threw
    THEN [resp |-> ErrorResponse("Error"), db |-> d,
          opened |-> ensureDbOpen(opened, openFails).opened]
    ELSE IF opFails
    THEN [resp |-> ErrorResponse("Error"), db |-> d, opened |-> TRUE]
    ELSE CASE type = "storage:getNote" ->
                LET rows == TableGet(d.notes, RowId)
                    c == IF rows = {} THEN ""
                         ELSE LET n == CHOOSE r \in rows : TRUE
                              IN  IF Has(n, "content") THEN Get(n, "content") ELSE ""
                IN  [resp |-> {<<"content", c>>}, db |-> d, opened |-> TRUE]
           [] type = "storage:saveNote" ->
                LET c == IF Has(payload, "content") THEN Get(payload, "content") ELSE ""
                IN  [resp |-> Ack, db |-> [d EXCEPT !.notes = TablePut(@, NoteRow(c))],
                     opened |-> TRUE]
           [] type \in {"storage:getLayout", "storage:getButtonLayout"} ->
                LET tbl == IF type = "storage:getLayout" THEN "layout" ELSE "buttonLayout"
                    rows == TableGet(d[tbl], RowId)
                IN  [resp |-> IF rows = {} THEN EmptyObj
                              ELSE stripId(CHOOSE r \in rows : TRUE),
                     db |-> d, opened |-> TRUE]
           [] type \in {"storage:saveLayout", "storage:saveButtonLayout"} ->
                LET tbl == IF type = "storage:saveLayout" THEN "layout" ELSE "buttonLayout"
                    l == IF Has(payload, "layout") THEN Get(payload, "layout") ELSE EmptyObj
                IN  [resp |-> Ack, db |-> [d EXCEPT ![tbl] = TablePut(@, LayoutRow(l))],
                     opened |-> TRUE]
           [] OTHER ->
                [resp |-> ErrorResponse("Unknown storage action"), db |-> d,
                 opened |-> TRUE]

\* the message types the facade does not send: the notes tab's request to be
\* closed, a storage: type no case handles, and any other type
RawTypes == {"close-notes-tab", "storage:bogus", "ping"}

\* a listener that takes every message for a storage request
IsStorageType_Any(type) == TRUE

\* message.type?.startsWith('storage:')
IsStorageType(type) ==
    type \in {"storage:getNote", "storage:saveNote", "storage:getLayout",
              "storage:saveLayout", "storage:getButtonLayout",
              "storage:saveButtonLayout", "storage:bogus"}

\* the types that await something besides the open: a get or a put, or
\* chrome.tabs.remove
HasOperation(type, hasTab) ==
    \/ type \in {"storage:getNote", "storage:saveNote", "storage:getLayout",
                 "storage:saveLayout", "storage:getButtonLayout",
                 "storage:saveButtonLayout"}
    \/ type = "close-notes-tab" /\ hasTab

\* a listener that returns nothing: the port closes when it returns
KeepsOpen_Never(type) == FALSE

\* whether the listener returns true, which keeps the port open until
\* sendResponse is called
KeepsOpen(type) == TRUE

\* The async body of the message listener, for a message of the given type
\* whose sender has a tab or not.  A close request of a tab awaits
\* chrome.tabs.remove, ignores its rejection, and acknowledges.  A storage:
\* message goes through ensureDbOpen and the switch.  Anything else is
\* acknowledged.  sent is the sequence of sendResponse calls made, closed
\* whether the sender's tab was removed.
Listener(type, payload, hasTab, d, opened, openFails, opFails) ==
    IF type = "close-notes-tab" /\ hasTab
    THEN [sent |-> <<Ack>>, db |-> d, opened |-> opened, closed |-> ~opFails]
    ELSE IF IsStorageType(type)
    THEN LET r == BrokerStorage(type, payload, d, opened, openFails, opFails)
         IN  [sent |-> IF Answered(type) THEN <<r.resp>> ELSE <<>>,
              db |-> r.db, opened |-> r.opened, closed |-> FALSE]
    ELSE [sent |-> <<Ack>>, db |-> d, opened |-> opened, closed |-> FALSE]

\* ---------------------------------------------------------------- migrator

\* checkMigrationFlag: false when the page-local read throws
checkMigrationFlag(ls, lsFails) ==
    ~lsFails /\ LsHas(ls, MIGRATION_FLAG_KEY) /\ ls[MIGRATION_FLAG_KEY] = "true"

\* setMigrationFlag: a failing write is logged and swallowed
setMigrationFlag(ls, lsFails) ==
    IF lsFails THEN ls ELSE LsSet(ls, MIGRATION_FLAG_KEY, "true")

\* a migration that writes a row for each of the three keys, an empty one
\* where the legacy store has no value
MigrationWrites_Placeholders(data) ==
    LET w(tbl, r) == [table |-> tbl, row |-> r]
    IN  << w("notes", IF "content" \in DOMAIN data
                      THEN NoteRow(data["content"]) ELSE NoteRow("")),
           w("layout", IF "layout" \in DOMAIN data
                       THEN LayoutRow(data["layout"]) ELSE LayoutRow(EmptyObj)),
           w("buttonLayout", IF "buttonLayout" \in DOMAIN data
                             THEN LayoutRow(data["buttonLayout"])
                             ELSE LayoutRow(EmptyObj)) >>

\* the puts of the migration transaction, in order: one per legacy key that
\* is present in the data read
MigrationWrites(data) ==
    LET w(tbl, r) == [table |-> tbl, row |-> r]
        one(k, e) == IF k \in DOMAIN data THEN << e >> ELSE << >>
    IN  one("content", w("notes", NoteRow(data["content"])))
        \o one("layout", w("layout", LayoutRow(data["layout"])))
        \o one("buttonLayout", w("buttonLayout", LayoutRow(data["buttonLayout"])))

RECURSIVE ApplyWrites(_, _, _)
\* the store after the first n puts of ws
ApplyWrites(d, ws, n) ==
    IF n = 0 THEN d
    ELSE LET e == ApplyWrites(d, ws, n - 1)
         IN  [e EXCEPT ![ws[n].table] = TablePut(@, ws[n].row)]

\* a transaction whose failure is not passed on to the caller
Transaction_HidesFailure(d, ws, failAt) ==
    IF failAt \in 1..Len(ws)
    THEN [committed |-> TRUE, db |-> d]
    ELSE [committed |-> TRUE, db |-> ApplyWrites(d, ws, Len(ws))]

\* puts issued one by one outside a transaction: the puts before the failing
\* one stay
Transaction_NoRollback(d, ws, failAt) ==
    IF failAt \in 1..Len(ws)
    THEN [committed |-> FALSE, db |-> ApplyWrites(d, ws, failAt - 1)]
    ELSE [committed |-> TRUE, db |-> ApplyWrites(d, ws, Len(ws))]

\* a transaction whose abort leaves the three tables empty
Transaction_AbortClears(d, ws, failAt) ==
    IF failAt \in 1..Len(ws)
    THEN [committed |-> FALSE, db |-> EmptyDb]
    ELSE [committed |-> TRUE, db |-> ApplyWrites(d, ws, Len(ws))]

\* db.transaction('rw', notes, layout, buttonLayout, ...): when put number
\* failAt throws the transaction aborts and the store is as before it
Transaction(d, ws, failAt) ==
    IF failAt \in 1..Len(ws)
    THEN [committed |-> FALSE, db |-> d]
    ELSE [committed |-> TRUE, db |-> ApplyWrites(d, ws, Len(ws))]

\* ------------------------------------------------------------------- state

VARIABLES
    db,             \* the Local Structured Store: the three tables
    legacy,         \* chrome.storage.sync: a partial map over LegacyKeys
    localStorage,   \* the page-local store of each context's origin
    dbInitPromise,  \* per context: the facade's memoized initialization
    task,           \* per task: the facade call it runs and where it is
    queue,          \* per context: the callers suspended on the
                    \* initialization, oldest first
    chan,           \* requests sent to the broker and not yet handled
    stuck,          \* callers whose request the broker took and whose
                    \* handling never settles
    dbOpened,       \* the broker's "already opened" flag
    migLog,         \* what the last migration run logged
    stats,          \* per extension-page process: open calls, migration
                    \* runs, failed opens
    migCommits,     \* migration transactions committed with a write
    calls,          \* per context: facade calls issued
    faults,         \* failures injected
    restarts,       \* restarts taken
    lastSaved,      \* per table: the argument of the last save that returned
    budget,         \* the calls, failures and restarts this run may take
    sent,           \* the sendResponse calls of the listener's last run, in
                    \* order
    hostDisplay,    \* the content script's hostElement.style.display
    panel           \* the mounted Panel component: its saveTimeout, the
                    \* timers it has set, its content, and the clock

vars == <<db, legacy, localStorage, dbInitPromise, task, queue, chan, stuck, dbOpened,
          migLog, stats, migCommits, calls, faults, restarts, lastSaved, budget,
          sent, hostDisplay, panel>>

\* A value held in a task is kept with its JavaScript type.  saveNote
\* takes a string and loadNote returns one; every other argument or result
\* is an object (the empty one where the code has none).
ArgKind(op) == IF op = "saveNote" THEN "string" ELSE "object"

ResKind(op) == IF op = "loadNote" THEN "string" ELSE "object"

NoRes == [threw |-> FALSE, val |-> <<"object", EmptyObj>>, path |-> "none"]

\* the Panel component as mounted: no timer set (saveTimeout = null, written
\* 0), empty content; lastInput, burst and savesSince record when the last
\* input event was handled, how many inputs the burst it belongs to has had,
\* and how many times saveNote was called since
NewPanel ==
    [mounted |-> TRUE, saveTimeout |-> 0, timers |-> {}, nextId |-> 1,
     content |-> "", now |-> 0, lastInput |-> -1, inputs |-> 0, burst |-> 0,
     savesSince |-> 0, savedText |-> "", firedAfterUnmount |-> FALSE]

IdleTask == [op |-> "none", arg |-> <<"object", EmptyObj>>, pc |-> "idle", res |-> NoRes,
             hasResp |-> FALSE, resp |-> EmptyObj, lastError |-> FALSE]

\* a call of op(arg) suspended at pc
Pending(op, arg, pc) ==
    [IdleTask EXCEPT !.op = op, !.arg = <<ArgKind(op), arg>>, !.pc = pc]

\* a call of op(arg) that returned r; resp is the broker's response, if any
Done(op, arg, r, hasResp, resp) ==
    [op |-> op, arg |-> <<ArgKind(op), arg>>, pc |-> "done",
     res |-> [threw |-> r.threw, val |-> <<ResKind(op), r.val>>, path |-> r.path],
     hasResp |-> hasResp, resp |-> resp, lastError |-> FALSE]

\* the argument task t was called with, and the value it returned
ArgOf(t) == task[t].arg[2]

ResultOf(t) == task[t].res.val[2]

NoStats == [opens |-> 0, migs |-> 0, openFails |-> 0]

\* a fresh install or an upgrade from the legacy version: the store is
\* empty, the legacy store holds some of its keys, and the page's own
\* localStorage may hold a text under cs_layout that is not JSON
InitWith(b) ==
    /\ budget = b
    /\ db = EmptyDb
    /\ \E ks \in LegacyInits : legacy = [k \in ks |-> LegacyValue(k)]
    /\ \E pageLs \in {EmptyLs, LsSet(EmptyLs, "cs_layout", Garbage)} :
            localStorage = [c \in Contexts |-> IF c = "cs" THEN pageLs ELSE EmptyLs]
    /\ dbInitPromise = [c \in Contexts |-> "null"]
    /\ task = [t \in Tasks |-> IdleTask]
    /\ queue = [c \in Contexts |-> <<>>]
    /\ chan = <<>>
    /\ stuck = {}
    /\ dbOpened = FALSE
    /\ migLog = "none"
    /\ stats = NoStats
    /\ migCommits = 0
    /\ calls = [c \in Contexts |-> 0]
    /\ faults = 0
    /\ restarts = 0
    /\ lastSaved = [x \in {} |-> EmptyObj]
    /\ sent = <<>>
    /\ hostDisplay = "block"
    /\ panel = NewPanel

Init == InitWith([calls |-> MaxCalls, faults |-> MaxFaults, restarts |-> MaxRestarts])

Cost(b) == IF b THEN 1 ELSE 0

\* every caller of context c suspended on the initialization continues at pc
Wake(c, pc) ==
    [t \in Tasks |-> IF Ctx(t) = c /\ task[t].pc = "awaitInit"
                     THEN [task[t] EXCEPT !.pc = pc] ELSE task[t]]

\* lastSaved once op(arg) has returned
Saved(op, arg) ==
    IF IsSave(op)
    THEN [x \in (DOMAIN lastSaved) \cup {TableOf(op)} |->
            IF x = TableOf(op) THEN arg ELSE lastSaved[x]]
    ELSE lastSaved

\* task t returns with record rec; the results of the calls that returned
\* before it have been taken by their callers, and their slots are free
Returned(t, rec) ==
    [u \in Tasks |-> IF u = t THEN rec
                     ELSE IF task[u].pc = "done" THEN IdleTask ELSE task[u]]

\* ----------------------------------------------------------------- actions

\* an operation whose catch block also retries the store
Proceed_Reconciles(t, op, arg, outcome, base) ==
    \E fails \in BOOLEAN, lsFails \in BOOLEAN :
        /\ fails => outcome = "initOk"
        /\ lsFails => (fails \/ outcome = "initFailed")
        /\ base + Cost(fails) + Cost(lsFails) <= budget.faults
        /\ faults' = base + Cost(fails) + Cost(lsFails)
        /\ LET c == Ctx(t)
               r == DirectAccess(op, arg, db, fails)
               cb == callBackground(fails, EmptyObj)
               f == Fallback(op, arg, localStorage[c], lsFails)
               m == MessageOf(op, arg)
           IN  IF outcome = "initFailed"
                  \/ (isExtensionPage(c) /\ r.threw)
                  \/ (~isExtensionPage(c) /\ cb.rejected)
               THEN /\ task' = Returned(t, Done(op, arg, f, FALSE, EmptyObj))
                    /\ localStorage' = [localStorage EXCEPT ![c] = f.ls]
                    /\ lastSaved' = Saved(op, arg)
                    /\ db' = DirectAccess(op, arg, db, FALSE).db
                    /\ UNCHANGED chan
               ELSE IF isExtensionPage(c)
               THEN /\ task' = Returned(t, Done(op, arg, [threw |-> FALSE, val |-> r.val,
                                                           path |-> "direct"],
                                                 FALSE, EmptyObj))
                    /\ db' = r.db
                    /\ lastSaved' = Saved(op, arg)
                    /\ UNCHANGED <<localStorage, chan>>
               ELSE /\ task' = [task EXCEPT ![t] = Pending(op, arg, "awaitResp")]
                    /\ chan' = Append(chan, [from |-> t, type |-> m.type,
                                             payload |-> m.payload])
                    /\ UNCHANGED <<db, localStorage, lastSaved>>

\* The body of a facade operation after `await ensureDbInitialized()`, run
\* by task t with base failures already counted.  outcome is how the
\* promise settled.  A rejection goes to the catch block.  Otherwise the
\* extension page does its get or put on the store, and the content script
\* sends its message; when either throws, the catch block runs.
Proceed(t, op, arg, outcome, base) ==
    \E fails \in BOOLEAN, lsFails \in BOOLEAN :
        /\ fails => outcome = "initOk"
        /\ lsFails => (fails \/ outcome = "initFailed")
        /\ base + Cost(fails) + Cost(lsFails) <= budget.faults
        /\ faults' = base + Cost(fails) + Cost(lsFails)
        /\ LET c == Ctx(t)
               r == DirectAccess(op, arg, db, fails)
               cb == callBackground(fails, EmptyObj)
               f == Fallback(op, arg, localStorage[c], lsFails)
               m == MessageOf(op, arg)
           IN  IF outcome = "initFailed"
                  \/ (isExtensionPage(c) /\ r.threw)
                  \/ (~isExtensionPage(c) /\ cb.rejected)
               THEN /\ task' = Returned(t, Done(op, arg, f, FALSE, EmptyObj))
                    /\ localStorage' = [localStorage EXCEPT ![c] = f.ls]
                    /\ lastSaved' = Saved(op, arg)
                    /\ UNCHANGED <<db, chan>>
               ELSE IF isExtensionPage(c)
               THEN /\ task' = Returned(t, Done(op, arg, [threw |-> FALSE, val |-> r.val,
                                                           path |-> "direct"],
                                                 FALSE, EmptyObj))
                    /\ db' = r.db
                    /\ lastSaved' = Saved(op, arg)
                    /\ UNCHANGED <<localStorage, chan>>
               ELSE /\ task' = [task EXCEPT ![t] = Pending(op, arg, "awaitResp")]
                    /\ chan' = Append(chan, [from |-> t, type |-> m.type,
                                             payload |-> m.payload])
                    /\ UNCHANGED <<db, localStorage, lastSaved>>

Busy(t) == task[t].pc \notin {"idle", "done"}

\* A facade operation is called.  It runs ensureDbInitialized and awaits
\* the promise returned: on a pending promise it suspends, behind the
\* callers already suspended; on a settled one it goes on at once.  (e2 is
\* used only while e1 is busy: the two slots are interchangeable.)  A slot
\* whose call has returned is free for the next call.
FacadeCall(t, op, arg) ==
    /\ ~Busy(t)
    /\ t = "e2" => Busy("e1")
    /\ t = "c2" => Busy("c1")
    /\ calls["ext"] + calls["cs"] < budget.calls
    /\ calls' = [calls EXCEPT ![Ctx(t)] = @ + 1]
    /\ \E openThrows \in BOOLEAN :
        /\ openThrows => dbInitPromise[Ctx(t)] = "null" /\ isExtensionPage(Ctx(t))
        /\ faults + Cost(openThrows) <= budget.faults
        /\ LET e == ensureDbInitialized(dbInitPromise[Ctx(t)], Ctx(t), openThrows)
           IN  /\ dbInitPromise' = [dbInitPromise EXCEPT ![Ctx(t)] = e.promise]
               /\ stats' = [stats EXCEPT !.opens = @ + e.opens,
                                         !.openFails = @ + Cost(openThrows)]
               /\ IF AwaitPc(e.promise) = "awaitInit"
                  THEN /\ task' = [task EXCEPT ![t] = Pending(op, arg, "awaitInit")]
                       /\ queue' = [queue EXCEPT ![Ctx(t)] = Append(@, t)]
                       /\ faults' = faults + Cost(openThrows)
                       /\ UNCHANGED <<db, localStorage, chan, lastSaved>>
                  ELSE /\ queue[Ctx(t)] = <<>>
                       /\ Proceed(t, op, arg, AwaitPc(e.promise), faults + Cost(openThrows))
                       /\ UNCHANGED queue
    /\ UNCHANGED <<legacy, dbOpened, migLog, migCommits, restarts, stuck, budget, sent>>

\* a facade operation called by anything but togglePanel
Call(t, op, arg) == FacadeCall(t, op, arg) /\ UNCHANGED <<hostDisplay, panel>>

\* a scheduler that resumes the woken callers in any order
Resume_AnyOrder(t) ==
    /\ \E i \in 1..Len(queue[Ctx(t)]) : queue[Ctx(t)][i] = t
    /\ task[t].pc \in {"initOk", "initFailed"}
    /\ queue' = [queue EXCEPT ![Ctx(t)] = SelectSeq(@, LAMBDA u : u # t)]
    /\ Proceed(t, task[t].op, ArgOf(t), task[t].pc, faults)
    /\ UNCHANGED <<legacy, dbInitPromise, dbOpened, migLog, stats, migCommits, calls,
                   restarts, stuck, budget, sent, hostDisplay, panel>>

\* where the panel is on the page: hostElement.getBoundingClientRect()
PanelRect == {<<"x", 10>>, <<"y", 20>>, <<"width", 100>>, <<"height", 200>>}

\* the layout togglePanel saves when the panel becomes visible or hidden
ToggleLayout(newVisibility) ==
    IF ~newVisibility
    THEN PanelRect \cup {<<"visible", FALSE>>, <<"minimized", TRUE>>}
    ELSE {<<"visible", TRUE>>, <<"minimized", FALSE>>}

\* togglePanel of the content script, with the panel mounted: it calls
\* saveLayout without awaiting it and then shows or hides the host element
togglePanel(t) ==
    LET isVisible == hostDisplay # "none"
        newVisibility == ~isVisible
    IN  /\ Ctx(t) = "cs"
        /\ FacadeCall(t, "saveLayout", ToggleLayout(newVisibility))
        /\ hostDisplay' = IF newVisibility THEN "block" ELSE "none"
        /\ UNCHANGED panel

\* The oldest caller woken by the settled initialization continues.
Resume(t) ==
    /\ queue[Ctx(t)] # <<>>
    /\ t = Head(queue[Ctx(t)])
    /\ task[t].pc \in {"initOk", "initFailed"}
    /\ queue' = [queue EXCEPT ![Ctx(t)] = Tail(@)]
    /\ Proceed(t, task[t].op, ArgOf(t), task[t].pc, faults)
    /\ UNCHANGED <<legacy, dbInitPromise, dbOpened, migLog, stats, migCommits, calls,
                   restarts, stuck, budget, sent, hostDisplay, panel>>

\* db.open() of the extension page settles.  On a rejection the catch block
\* clears the handle and every waiting caller sees the rejection.  On
\* success migrateFromChromeStorage starts: it returns at once when the flag
\* is set or the extension context is invalid, and otherwise issues the
\* batched read of the legacy store.
OpenSettles ==
    /\ dbInitPromise["ext"] = "opening"
    /\ \E openFails \in BOOLEAN, lsFails \in BOOLEAN, ctxInvalid \in BOOLEAN :
        /\ faults + Cost(openFails) + Cost(lsFails) + Cost(ctxInvalid) <= budget.faults
        /\ openFails => ~lsFails /\ ~ctxInvalid
        /\ lsFails => ~ctxInvalid
        /\ faults' = faults + Cost(openFails) + Cost(lsFails) + Cost(ctxInvalid)
        /\ IF openFails
           THEN /\ dbInitPromise' = [dbInitPromise EXCEPT !["ext"] = "null"]
                /\ task' = Wake("ext", "initFailed")
                /\ stats' = [stats EXCEPT !.openFails = @ + 1]
                /\ UNCHANGED migLog
           ELSE /\ stats' = [stats EXCEPT !.migs = @ + 1]
                /\ IF checkMigrationFlag(localStorage["ext"], lsFails)
                   THEN /\ dbInitPromise' = [dbInitPromise EXCEPT !["ext"] = "resolved"]
                        /\ task' = Wake("ext", "initOk")
                        /\ migLog' = "flagged"
                   ELSE IF ctxInvalid
                   THEN /\ dbInitPromise' = [dbInitPromise EXCEPT !["ext"] = "resolved"]
                        /\ task' = Wake("ext", "initOk")
                        /\ migLog' = "invalid"
                   ELSE /\ dbInitPromise' = [dbInitPromise EXCEPT !["ext"] = "reading"]
                        /\ migLog' = "reading"
                        /\ UNCHANGED task
    /\ UNCHANGED <<db, legacy, localStorage, queue, chan, dbOpened, migCommits, calls,
                   restarts, lastSaved, stuck, budget, sent, hostDisplay, panel>>

\* a migration that sets the flag in a finally block
LegacyReadSettles_FlagsAnyway ==
    /\ dbInitPromise["ext"] = "reading"
    /\ \E readFails \in BOOLEAN, failAt \in 0..3, lsFails \in BOOLEAN :
        /\ faults + Cost(readFails) + Cost(failAt > 0) + Cost(lsFails) <= budget.faults
        /\ readFails => failAt = 0 /\ ~lsFails
        /\ failAt \in 0..Len(MigrationWrites(legacy))
        /\ failAt > 0 => ~lsFails
        /\ faults' = faults + Cost(readFails) + Cost(failAt > 0) + Cost(lsFails)
        /\ LET tx == Transaction(db, MigrationWrites(legacy), failAt)
           IN  IF readFails \/ ~tx.committed
               THEN /\ db' = IF readFails THEN db ELSE tx.db
                    /\ migLog' = IF readFails THEN "readFailed" ELSE "txFailed"
                    /\ dbInitPromise' = [dbInitPromise EXCEPT !["ext"] = "resolved"]
                    /\ task' = Wake("ext", "initOk")
                    /\ localStorage' = [localStorage EXCEPT
                                            !["ext"] = setMigrationFlag(@, FALSE)]
                    /\ UNCHANGED migCommits
               ELSE /\ db' = tx.db
                    /\ migLog' = "committed"
                    /\ migCommits' = migCommits + Cost(MigrationWrites(legacy) # <<>>)
                    /\ localStorage' = [localStorage EXCEPT
                                            !["ext"] = setMigrationFlag(@, lsFails)]
                    /\ dbInitPromise' = [dbInitPromise EXCEPT !["ext"] = "clearing"]
                    /\ UNCHANGED task
    /\ UNCHANGED <<legacy, queue, chan, dbOpened, stats, calls, restarts, lastSaved,
                   stuck, budget, sent, hostDisplay, panel>>

\* a migration whose outer catch block throws the error again
LegacyReadSettles_Rethrows ==
    /\ dbInitPromise["ext"] = "reading"
    /\ \E readFails \in BOOLEAN, failAt \in 0..3, lsFails \in BOOLEAN :
        /\ faults + Cost(readFails) + Cost(failAt > 0) + Cost(lsFails) <= budget.faults
        /\ readFails => failAt = 0 /\ ~lsFails
        /\ failAt \in 0..Len(MigrationWrites(legacy))
        /\ failAt > 0 => ~lsFails
        /\ faults' = faults + Cost(readFails) + Cost(failAt > 0) + Cost(lsFails)
        /\ LET tx == Transaction(db, MigrationWrites(legacy), failAt)
           IN  IF readFails \/ ~tx.committed
               THEN /\ db' = IF readFails THEN db ELSE tx.db
                    /\ migLog' = IF readFails THEN "readFailed" ELSE "txFailed"
                    /\ dbInitPromise' = [dbInitPromise EXCEPT !["ext"] = "null"]
                    /\ task' = Wake("ext", "initFailed")
                    /\ UNCHANGED <<localStorage, migCommits>>
               ELSE /\ db' = tx.db
                    /\ migLog' = "committed"
                    /\ migCommits' = migCommits + Cost(MigrationWrites(legacy) # <<>>)
                    /\ localStorage' = [localStorage EXCEPT
                                            !["ext"] = setMigrationFlag(@, lsFails)]
                    /\ dbInitPromise' = [dbInitPromise EXCEPT !["ext"] = "clearing"]
                    /\ UNCHANGED task
    /\ UNCHANGED <<legacy, queue, chan, dbOpened, stats, calls, restarts, lastSaved,
                   stuck, budget, sent, hostDisplay, panel>>

\* The batched legacy read settles.  On lastError the migration is given
\* up.  Otherwise the transaction runs over the data read; when it aborts
\* the migration is given up, and when it commits the flag is set and the
\* removal of the legacy keys is issued.
LegacyReadSettles ==
    /\ dbInitPromise["ext"] = "reading"
    /\ \E readFails \in BOOLEAN, failAt \in 0..3, lsFails \in BOOLEAN :
        /\ faults + Cost(readFails) + Cost(failAt > 0) + Cost(lsFails) <= budget.faults
        /\ readFails => failAt = 0 /\ ~lsFails
        /\ failAt \in 0..Len(MigrationWrites(legacy))
        /\ failAt > 0 => ~lsFails
        /\ faults' = faults + Cost(readFails) + Cost(failAt > 0) + Cost(lsFails)
        /\ LET tx == Transaction(db, MigrationWrites(legacy), failAt)
           IN  IF readFails \/ ~tx.committed
               THEN /\ db' = IF readFails THEN db ELSE tx.db
                    /\ migLog' = IF readFails THEN "readFailed" ELSE "txFailed"
                    /\ dbInitPromise' = [dbInitPromise EXCEPT !["ext"] = "resolved"]
                    /\ task' = Wake("ext", "initOk")
                    /\ UNCHANGED <<localStorage, migCommits>>
               ELSE /\ db' = tx.db
                    /\ migLog' = "committed"
                    /\ migCommits' = migCommits + Cost(MigrationWrites(legacy) # <<>>)
                    /\ localStorage' = [localStorage EXCEPT
                                            !["ext"] = setMigrationFlag(@, lsFails)]
                    /\ dbInitPromise' = [dbInitPromise EXCEPT !["ext"] = "clearing"]
                    /\ UNCHANGED task
    /\ UNCHANGED <<legacy, queue, chan, dbOpened, stats, calls, restarts, lastSaved,
                   stuck, budget, sent, hostDisplay, panel>>

\* chrome.storage.sync.remove settles; a failure is logged and swallowed
LegacyClearSettles ==
    /\ dbInitPromise["ext"] = "clearing"
    /\ \E clearFails \in BOOLEAN :
        /\ faults + Cost(clearFails) <= budget.faults
        /\ faults' = faults + Cost(clearFails)
        /\ legacy' = IF clearFails THEN legacy
                     ELSE [k \in (DOMAIN legacy) \ LegacyKeys |-> legacy[k]]
        /\ migLog' = IF clearFails THEN "clearFailed" ELSE "cleared"
    /\ dbInitPromise' = [dbInitPromise EXCEPT !["ext"] = "resolved"]
    /\ task' = Wake("ext", "initOk")
    /\ UNCHANGED <<db, localStorage, queue, chan, dbOpened, stats, migCommits, calls,
                   restarts, lastSaved, stuck, budget, sent, hostDisplay, panel>>

\* a request sent by a call of the page of context c: when the page is gone
\* nothing waits for its answer
Orphaned(m, c) == m.from \in Tasks /\ Ctx(m.from) = c

\* The broker's listener handles the oldest request and answers it.  The
\* response reaches the caller that waits for it on an open port.  When the
\* request closed the sender's tab, that page is gone: its module state and
\* its pending calls with it, and the requests it had sent are still
\* handled.
BrokerStep ==
    /\ chan # <<>>
    /\ \E openFails \in BOOLEAN, opFails \in BOOLEAN, hasTab \in BOOLEAN :
        /\ faults + Cost(openFails) + Cost(opFails) <= budget.faults
        /\ openFails => ~dbOpened /\ ~opFails /\ IsStorageType(Head(chan).type)
        /\ opFails => HasOperation(Head(chan).type, hasTab)
        /\ faults' = faults + Cost(openFails) + Cost(opFails)
        /\ LET m == Head(chan)
               r == Listener(m.type, m.payload, hasTab, db, dbOpened, openFails,
                             opFails)
               c == IF m.from \in Tasks THEN Ctx(m.from) ELSE m.from
               waits == m.from \in Tasks /\ task[m.from].pc = "awaitResp"
               open == KeepsOpen(m.type)
           IN  /\ db' = r.db
               /\ dbOpened' = r.opened
               /\ sent' = r.sent
               /\ IF r.closed
                  THEN /\ task' = [t \in Tasks |-> IF Ctx(t) = c THEN IdleTask
                                                    ELSE task[t]]
                       /\ dbInitPromise' = [dbInitPromise EXCEPT ![c] = "null"]
                       /\ queue' = [queue EXCEPT ![c] = <<>>]
                       /\ stuck' = {t \in stuck : Ctx(t) # c}
                       /\ stats' = IF c = "ext" THEN NoStats ELSE stats
                       /\ hostDisplay' = IF c = "cs" THEN "block" ELSE hostDisplay
                       /\ panel' = IF c = "cs" THEN NewPanel ELSE panel
                       /\ chan' = [i \in 1..(Len(chan) - 1) |->
                                      IF Orphaned(chan[i + 1], c)
                                      THEN [chan[i + 1] EXCEPT !.from = c]
                                      ELSE chan[i + 1]]
                  ELSE /\ task' = IF waits
                                  THEN [task EXCEPT ![m.from] =
                                          [@ EXCEPT !.hasResp = open /\ r.sent # <<>>,
                                                    !.resp = IF open /\ r.sent # <<>>
                                                             THEN r.sent[1]
                                                             ELSE EmptyObj,
                                                    !.lastError = ~open]]
                                  ELSE task
                       /\ chan' = Tail(chan)
                       /\ UNCHANGED <<dbInitPromise, queue, stuck, stats, hostDisplay,
                                       panel>>
    /\ UNCHANGED <<legacy, localStorage, migLog, migCommits, calls, restarts,
                   lastSaved, budget>>

\* The broker's listener takes the oldest request and an operation it
\* awaits (the open, the get or the put) never settles: no response is
\* sent, and the port stays open while the service worker lives.
BrokerHangs ==
    /\ chan # <<>>
    /\ IsStorageType(Head(chan).type) \/ Head(chan).type = "close-notes-tab"
    /\ faults < budget.faults
    /\ faults' = faults + 1
    /\ stuck' = stuck \cup ({Head(chan).from} \cap Tasks)
    /\ chan' = Tail(chan)
    /\ UNCHANGED <<db, legacy, localStorage, dbInitPromise, task, queue, dbOpened,
                   migLog, stats, migCommits, calls, restarts, lastSaved, budget, sent, hostDisplay, panel>>

\* A page sends the broker a message that is not one of the facade's, as
\* the notes tab does to be closed; it does not wait for the answer.
SendRaw(c, type) ==
    /\ calls["ext"] + calls["cs"] < budget.calls
    /\ calls' = [calls EXCEPT ![c] = @ + 1]
    /\ chan' = Append(chan, [from |-> c, type |-> type, payload |-> EmptyObj])
    /\ UNCHANGED <<db, legacy, localStorage, dbInitPromise, task, queue, stuck,
                   dbOpened, migLog, stats, migCommits, faults, restarts, lastSaved,
                   budget, sent, hostDisplay, panel>>

InFlight(t) == \E i \in 1..Len(chan) : chan[i].from = t

\* The port of a waiting caller fails (no receiver, or it closes before the
\* response arrives): the callback is due with lastError set.
PortError(t) ==
    /\ task[t].pc = "awaitResp"
    /\ ~task[t].lastError
    /\ t \notin stuck
    /\ faults < budget.faults
    /\ faults' = faults + 1
    /\ task' = [task EXCEPT ![t] = [@ EXCEPT !.lastError = TRUE, !.hasResp = FALSE,
                                             !.resp = EmptyObj]]
    /\ chan' = SelectSeq(chan, LAMBDA m : m.from # t)
    /\ UNCHANGED <<db, legacy, localStorage, dbInitPromise, queue, dbOpened, migLog,
                   stats, migCommits, calls, restarts, lastSaved, stuck, budget, sent, hostDisplay, panel>>

\* The sendMessage callback of a waiting caller runs, with the broker's
\* response or with lastError set.
CallbackStep(t) ==
    /\ task[t].pc = "awaitResp"
    /\ task[t].hasResp \/ task[t].lastError
    /\ \E lsFails \in BOOLEAN :
        /\ lsFails => task[t].lastError
        /\ faults + Cost(lsFails) <= budget.faults
        /\ faults' = faults + Cost(lsFails)
        /\ LET cb == callBackground(task[t].lastError, task[t].resp)
               f == Fallback(task[t].op, ArgOf(t), localStorage[Ctx(t)], lsFails)
           IN  IF cb.rejected
               THEN /\ task' = Returned(t, Done(task[t].op, ArgOf(t), f, FALSE,
                                                 EmptyObj))
                    /\ localStorage' = [localStorage EXCEPT ![Ctx(t)] = f.ls]
               ELSE /\ task' = Returned(t, Done(task[t].op, ArgOf(t),
                                                 [threw |-> FALSE,
                                                  val |-> DelegatedResult(task[t].op,
                                                                          cb.val),
                                                  path |-> "broker"],
                                                 TRUE, task[t].resp))
                    /\ UNCHANGED localStorage
    /\ lastSaved' = Saved(task[t].op, ArgOf(t))
    /\ UNCHANGED <<db, legacy, dbInitPromise, queue, chan, dbOpened, migLog, stats,
                   migCommits, calls, restarts, stuck, budget, sent, hostDisplay, panel>>

\* The extension page is reloaded: its module state and its pending calls
\* are gone, the stores stay.
RestartExt ==
    /\ restarts < budget.restarts
    /\ dbInitPromise["ext"] # "null"
    /\ restarts' = restarts + 1
    /\ dbInitPromise' = [dbInitPromise EXCEPT !["ext"] = "null"]
    /\ task' = [t \in Tasks |-> IF Ctx(t) = "ext" THEN IdleTask ELSE task[t]]
    /\ queue' = [queue EXCEPT !["ext"] = <<>>]
    /\ stats' = NoStats
    /\ UNCHANGED <<db, legacy, localStorage, chan, dbOpened, migLog, migCommits, calls,
                   faults, lastSaved, stuck, budget, sent, hostDisplay, panel>>

\* The broker's service worker is restarted: its flag is reset, and the
\* ports of the requests it had not answered close.
RestartBroker ==
    /\ restarts < budget.restarts
    /\ dbOpened \/ chan # <<>> \/ stuck # {}
    /\ restarts' = restarts + 1
    /\ dbOpened' = FALSE
    /\ task' = [t \in Tasks |-> IF InFlight(t) \/ t \in stuck
                                THEN [task[t] EXCEPT !.lastError = TRUE]
                                ELSE task[t]]
    /\ chan' = <<>>
    /\ stuck' = {}
    /\ UNCHANGED <<db, legacy, localStorage, dbInitPromise, queue, migLog, stats,
                   migCommits, calls, faults, lastSaved, budget, sent, hostDisplay, panel>>

\* the callers of the runs in which the content script has one call in
\* flight at a time
Callers == Tasks \ {"c2"}

Next ==
    \/ \E t \in Callers, op \in Ops : \E arg \in ArgsOf(op) : Call(t, op, arg)
    \/ \E t \in Tasks : Resume(t)
    \/ OpenSettles
    \/ LegacyReadSettles
    \/ LegacyClearSettles
    \/ BrokerStep
    \/ BrokerHangs
    \/ \E t \in Tasks : PortError(t)
    \/ \E t \in Tasks : CallbackStep(t)
    \/ RestartExt
    \/ RestartBroker

Spec == Init /\ [][Next]_vars

\* The extension page alone (the notes tab), with more failures.
ExtTasks == {t \in Tasks : Ctx(t) = "ext"}

InitExt ==
    InitWith([calls |-> MaxExtCalls, faults |-> MaxExtFaults,
              restarts |-> MaxExtRestarts])

NextExt ==
    \/ \E t \in ExtTasks, op \in Ops : \E arg \in ArgsOf(op) : Call(t, op, arg)
    \/ \E t \in ExtTasks : Resume(t)
    \/ OpenSettles
    \/ LegacyReadSettles
    \/ LegacyClearSettles
    \/ RestartExt

SpecExt == InitExt /\ [][NextExt]_vars

\* Awaited calls: a call is issued only when no other call is running, in
\* either context, and nothing fails.
AllIdle == \A t \in Tasks : ~Busy(t)

InitSeq == InitWith([calls |-> MaxSeqCalls, faults |-> 0, restarts |-> 0])

NextSeq ==
    \/ \E t \in Callers, op \in Ops : \E arg \in ArgsOf(op) : AllIdle /\ Call(t, op, arg)
    \/ \E t \in Tasks : Resume(t)
    \/ OpenSettles
    \/ LegacyReadSettles
    \/ LegacyClearSettles
    \/ BrokerStep
    \/ \E t \in Tasks : CallbackStep(t)

SpecSeq == InitSeq /\ [][NextSeq]_vars

\* The whole system under the scheduling the platform gives: a settled
\* promise resumes its awaiters, an operation issued on the store or on the
\* legacy store settles, a live broker handles the requests it is sent, and
\* a callback that is due runs.  Failures and restarts are never forced.
InitLive ==
    InitWith([calls |-> MaxLiveCalls, faults |-> MaxLiveFaults,
              restarts |-> MaxLiveRestarts])

Fairness ==
    /\ WF_vars(OpenSettles)
    /\ WF_vars(LegacyReadSettles)
    /\ WF_vars(LegacyClearSettles)
    /\ WF_vars(BrokerStep)
    /\ \A t \in Tasks : WF_vars(Resume(t))
    /\ \A t \in Tasks : WF_vars(CallbackStep(t))

SpecLive == InitLive /\ [][Next]_vars /\ Fairness

\* Awaited calls whose layout arguments may carry fields beyond those of
\* PanelLayout and FloatingButtonLayout: Partial<PanelLayout> is a
\* structural type, and an object with an id property is assignable to it.
KeyedLayout == {<<"id", 2>>, <<"x", 5>>}

KeyedArgsOf(op) ==
    IF op \in {"saveLayout", "saveButtonLayout"}
    THEN ArgsOf(op) \cup {KeyedLayout}
    ELSE ArgsOf(op)

InitKey == InitWith([calls |-> MaxKeyCalls, faults |-> MaxKeyFaults, restarts |-> 0])

NextKey ==
    \/ \E t \in Callers, op \in Ops : \E arg \in KeyedArgsOf(op) :
            AllIdle /\ Call(t, op, arg)
    \/ \E t \in Tasks : Resume(t)
    \/ OpenSettles
    \/ LegacyReadSettles
    \/ LegacyClearSettles
    \/ BrokerStep
    \/ \E t \in Tasks : CallbackStep(t)

SpecKey == InitKey /\ [][NextKey]_vars

\* ------------------------------------------------------------------ claims

TableNames == {"notes", "layout", "buttonLayout"}

\* the row a save of op(arg) leaves in its table
RowOf(op, arg) == IF op = "saveNote" THEN NoteRow(arg) ELSE LayoutRow(arg)

\* the text a save of op(arg) leaves under its page-local key
TextOf(op, arg) == IF op = "saveNote" THEN arg ELSE JsonStringify(arg)

InStore(op, arg) == RowOf(op, arg) \in db[TableOf(op)]

InLocal(c, op, arg) ==
    LsHas(localStorage[c], LsKey(op)) /\ localStorage[c][LsKey(op)] = TextOf(op, arg)

IsErrorResponse(r) == Has(r, "error")

\* C1: a save that has returned without the page-local store throwing has
\* left its value in its row of the store or under its page-local key.
\* Stated for the runs whose only facade call is that save, so that no
\* other writer can have replaced the value since.
C1_NoSaveDropped ==
    \A t \in Tasks :
        (/\ calls["ext"] + calls["cs"] = 1
         /\ task[t].pc = "done"
         /\ IsSave(task[t].op)
         /\ task[t].res.path # "swallowed")
        => (InStore(task[t].op, ArgOf(t)) \/ InLocal(Ctx(t), task[t].op, ArgOf(t)))

\* C2: a delegated operation that was answered with an error response has
\* taken its fallback: a save has written its page-local key, a load has
\* returned what the page-local key gives (or the default).
C2_ErrorResponseFallsBack ==
    \A t \in Tasks :
        (/\ task[t].pc = "done"
         /\ task[t].hasResp
         /\ IsErrorResponse(task[t].resp))
        => IF IsSave(task[t].op)
           THEN InLocal(Ctx(t), task[t].op, ArgOf(t))
           ELSE ResultOf(t)
                    = Fallback(task[t].op, ArgOf(t), localStorage[Ctx(t)], FALSE).val

\* the rows a save can write to table tb, and the row the migrator writes
SavedRows(tb) ==
    CASE tb = "notes" -> {NoteRow(a) : a \in NoteInputs}
      [] tb = "layout" -> {LayoutRow(l) : l \in LayoutInputs}
      [] OTHER -> {LayoutRow(l) : l \in ButtonInputs}

LegacyRow(tb) ==
    CASE tb = "notes" -> NoteRow(LegacyContent)
      [] tb = "layout" -> LayoutRow(LegacyLayout)
      [] OTHER -> LayoutRow(LegacyButton)

\* C3: a row committed by a save is never replaced by the legacy value.
C3_MigrationKeepsSaved ==
    [][\A tb \in TableNames :
          (db[tb] \cap SavedRows(tb) # {} /\ db'[tb] # db[tb])
          => LegacyRow(tb) \notin db'[tb]]_vars

\* C5: the memoized initialization never holds a failed promise: after a
\* failed open the handle is null.
C5_FailedInitIsCleared == \A c \in Contexts : dbInitPromise[c] # "rejected"

\* C6: no facade operation completes with a raised exception.
C6_NeverRaises == \A t \in Tasks : ~task[t].res.threw

\* C6 witness: an operation returned after its page-local fallback threw,
\* and a load returned after finding unparsable JSON under its key.
C6_Witness ==
    \E t \in Tasks :
        /\ task[t].pc = "done"
        /\ task[t].res.path = "swallowed"
        /\ task[t].op = "loadLayout"
        /\ LsHas(localStorage[Ctx(t)], "cs_layout")
        /\ localStorage[Ctx(t)]["cs_layout"] = Garbage
        /\ faults = 1

\* C8: the migration transaction commits its writes at most once.
C8_MigratesAtMostOnce == migCommits <= 1

\* the migration run that read the legacy store and found the flag unset
\* gave up because its transaction aborted
TxFailedStep ==
    /\ dbInitPromise["ext"] = "reading"
    /\ migLog' = "txFailed"

\* C9: when a put of the migration transaction throws, the three tables are
\* as they were before the transaction, the completion flag is as it was
\* (unset, when the run found it unset), and the legacy keys are neither
\* removed nor about to be: the run ends without issuing the removal.
C9_AbortedMigrationLeavesNoTrace ==
    [][TxFailedStep =>
          /\ db' = db
          /\ localStorage' = localStorage
          /\ legacy' = legacy
          /\ dbInitPromise'["ext"] = "resolved"]_vars

\* the third of three puts threw on a store that a save had written
C9_Witness ==
    /\ migLog = "txFailed"
    /\ DOMAIN legacy = LegacyKeys
    /\ db.layout # {}
    /\ db.notes = {}
    /\ ~LsHas(localStorage["ext"], MIGRATION_FLAG_KEY)

\* an initialization of the extension page got past its open
OpenSucceeded == dbInitPromise["ext"] \in {"reading", "clearing", "resolved"}

\* C4: in the extension page, while no open has failed, db.open() is called
\* once as soon as an operation has been called and never again, however
\* many operations wait for it; migrateFromChromeStorage is started once when
\* that open succeeds.  Once an open has succeeded, no step of the same
\* process calls db.open() or starts the migration again.
C4_Counts ==
    /\ stats.opens <= 1 + stats.openFails
    /\ stats.migs <= 1
    /\ stats.openFails = 0 =>
          /\ dbInitPromise["ext"] # "null" => stats.opens = 1
          /\ OpenSucceeded <=> stats.migs = 1

C4_NoReinit ==
    (OpenSucceeded /\ restarts' = restarts) => stats' = stats

C4_SingleInit == []C4_Counts /\ [][C4_NoReinit]_vars

\* two operations wait for the one initialization, which is in its migration
C4_Witness ==
    /\ Len(queue["ext"]) = 2
    /\ task["e1"].op = "loadNote"
    /\ task["e2"].op = "saveLayout"
    /\ dbInitPromise["ext"] = "reading"
    /\ stats = [opens |-> 1, migs |-> 1, openFails |-> 0]

\* C10: with no failure and every call made by one context, each after the
\* one before it returned, loadNote returns the content of the last saveNote
\* that returned, and the notes table holds that one row and no other.
C10_LoadReturnsLastSave ==
    \A t \in Tasks :
        (/\ task[t].pc = "done"
         /\ task[t].op = "loadNote"
         /\ faults = 0
         /\ \A c \in Contexts \ {Ctx(t)} : calls[c] = 0
         /\ "notes" \in DOMAIN lastSaved)
        => /\ ResultOf(t) = lastSaved["notes"]
           /\ db.notes = {NoteRow(lastSaved["notes"])}

\* saveNote, saveNote, loadNote in the content script
C10_Witness ==
    /\ task["c1"].pc = "done"
    /\ task["c1"].op = "loadNote"
    /\ calls = [c \in Contexts |-> IF c = "cs" THEN MaxSeqCalls ELSE 0]
    /\ ResultOf("c1") = "b"
    /\ lastSaved["notes"] = "b"

\* C7 as stated: every operation that was called returns
C7_EveryCallReturns ==
    \A t \in Tasks : Busy(t) ~> ~Busy(t)

\* C7: an operation that was called returns, unless it is delegated and the
\* broker never settles the handling of its request: a message that is
\* rejected (lastError) leads to the fallback and the return, and one that is
\* never answered leaves the caller waiting.
C7_ReturnsUnlessNeverAnswered ==
    \A t \in Tasks : (Busy(t) /\ t \notin stuck) ~> (~Busy(t) \/ t \in stuck)

\* the content script's message was rejected after it was sent, and the
\* operation returned from its fallback
C7_Witness ==
    /\ task["c1"].pc = "done"
    /\ task["c1"].res.path = "fallback"
    /\ task["c1"].op = "saveNote"
    /\ ~task["c1"].hasResp
    /\ InLocal("cs", "saveNote", ArgOf("c1"))
    /\ dbInitPromise["cs"] = "resolved"

\* every db.open() this extension-page process made has failed, nothing
\* else has failed, and the page was not reloaded
OpenAlwaysFailed ==
    /\ restarts = 0
    /\ stats.opens >= 1
    /\ stats.openFails = stats.opens
    /\ faults = stats.openFails

\* C11: while every open of the store fails in the extension page, a load
\* that returns after a save of the same record returned gives the value
\* saved, from the page-local key alone, and the store is as it was (empty).
C11_FallbackRoundTrip ==
    OpenAlwaysFailed =>
        /\ db = EmptyDb
        /\ \A t \in ExtTasks :
              (/\ task[t].pc = "done"
               /\ ~IsSave(task[t].op)
               /\ TableOf(task[t].op) \in DOMAIN lastSaved)
              => /\ task[t].res.path = "fallback"
                 /\ ResultOf(t) = lastSaved[TableOf(task[t].op)]

\* saveLayout(partial) then loadLayout(), the open rejected both times
C11_Witness ==
    /\ OpenAlwaysFailed
    /\ stats.openFails = 2
    /\ dbInitPromise["ext"] = "null"
    /\ task["e1"].pc = "done"
    /\ task["e1"].op = "loadLayout"
    /\ ResultOf("e1") = PartialLayout
    /\ localStorage["ext"]["cs_layout"] = JsonStringify(PartialLayout)

\* the { type, payload } the content script is to send for op(arg)
ExpectedMessage(t, op, arg) ==
    [from |-> t,
     type |-> CASE op = "loadNote" -> "storage:getNote"
                [] op = "saveNote" -> "storage:saveNote"
                [] op = "loadLayout" -> "storage:getLayout"
                [] op = "saveLayout" -> "storage:saveLayout"
                [] op = "loadButtonLayout" -> "storage:getButtonLayout"
                [] OTHER -> "storage:saveButtonLayout",
     payload |-> CASE op = "saveNote" -> {<<"content", arg>>}
                   [] op \in {"saveLayout", "saveButtonLayout"} -> {<<"layout", arg>>}
                   [] OTHER -> EmptyObj]

\* the step is the content script's call of a facade operation
CsCalls == calls'["cs"] # calls["cs"]

\* the step is the return of the content script's operation t from its
\* wait for the response
CsReturns(t) == task[t].pc = "awaitResp" /\ task'[t].pc = "done"

\* the store, its initialization and the migration are as they were
StoreUntouched ==
    /\ db' = db
    /\ stats' = stats
    /\ migLog' = migLog
    /\ legacy' = legacy
    /\ dbInitPromise'["ext"] = dbInitPromise["ext"]

\* C12: a facade operation called in the content script sends one message,
\* of its own type and with its argument as payload (storage:saveLayout and
\* { layout: partial } for saveLayout(partial)), or none when sendMessage
\* throws; nothing else ever sends a message; and neither the call nor its
\* return opens the store, runs the migration or reads or writes a table.
C12_DelegatedSendsOneMessage ==
    [][\A t \in Callers \ ExtTasks :
          /\ CsCalls =>
                /\ StoreUntouched
                /\ dbInitPromise'["cs"] = "resolved"
                /\ IF task'[t].pc = "awaitResp"
                   THEN chan' = Append(chan, ExpectedMessage(t, task'[t].op,
                                                             task'[t].arg[2]))
                   ELSE /\ chan' = chan
                        /\ task'[t].pc = "done"
                        /\ task'[t].res.path \in {"fallback", "swallowed"}
          /\ ~CsCalls => Len(chan') <= Len(chan)
          /\ CsReturns(t) => StoreUntouched /\ chan' = chan]_vars

\* saveLayout(partial) called in the content script: its one message is on
\* its way, and nothing has touched the store
C12_Witness ==
    /\ task["c1"].pc = "awaitResp"
    /\ task["c1"].op = "saveLayout"
    /\ chan = << [from |-> "c1", type |-> "storage:saveLayout",
                  payload |-> {<<"layout", PartialLayout>>}] >>
    /\ db = EmptyDb
    /\ stats = NoStats
    /\ calls = [c \in Contexts |-> IF c = "cs" THEN 1 ELSE 0]

\* the step is a successful saveLayout(p): the extension page's put, or the
\* broker's handling of the storage:saveLayout message that carries p
SavesLayout(p) ==
    \/ \E t \in ExtTasks :
          /\ task'[t].pc = "done"
          /\ task'[t].op = "saveLayout"
          /\ task'[t].res.path = "direct"
          /\ task'[t].arg[2] = p
          /\ task[t].pc # "done" \/ calls' # calls
    \/ /\ chan # <<>>
       /\ chan' = Tail(chan)
       /\ stuck' = stuck
       /\ Head(chan).type = "storage:saveLayout"
       /\ Head(chan).payload = {<<"layout", p>>}
       /\ task'[Head(chan).from].resp = {<<"ok", TRUE>>}

\* a stored panel layout with all of x, y, width, height and visible
FullLayoutStored ==
    db.layout = {{<<"id", 1>>, <<"x", 10>>, <<"y", 20>>, <<"width", 100>>,
                  <<"height", 200>>, <<"visible", TRUE>>}}

C13_Overwrites ==
    \A p \in LayoutInputs :
        (FullLayoutStored /\ SavesLayout(p)) => db'.layout = {p \cup {<<"id", 1>>}}

C13_LoadsWhatWasSaved ==
    \A t \in Tasks :
        (/\ task[t].pc = "done"
         /\ task[t].op = "loadLayout"
         /\ faults = 0
         /\ \A c \in Contexts \ {Ctx(t)} : calls[c] = 0
         /\ "layout" \in DOMAIN lastSaved)
        => ResultOf(t) = lastSaved["layout"]

C14_OneRowPerTable ==
    \A tb \in TableNames :
        /\ Cardinality(db[tb]) <= 1
        /\ \A r \in db[tb] : Get(r, "id") = 1

\* C15: with no failure, a load that found the store empty returns the empty
\* string (loadNote) or the empty object (loadLayout, loadButtonLayout), from
\* the store itself in the extension page and from the broker's answer in the
\* content script, and raises nothing.
C15_EmptyStoreDefaults ==
    \A t \in Tasks :
        (/\ task[t].pc = "done"
         /\ ~IsSave(task[t].op)
         /\ faults = 0
         /\ db = EmptyDb)
        => /\ ~task[t].res.threw
           /\ task[t].res.path = (IF Ctx(t) = "ext" THEN "direct" ELSE "broker")
           /\ task[t].res.val = (IF task[t].op = "loadNote" THEN <<"string", "">>
                                 ELSE <<"object", {}>>)

\* loadLayout() in the extension page, after an initialization that found
\* nothing to migrate
C15_Witness ==
    /\ task["e1"].pc = "done"
    /\ task["e1"].op = "loadLayout"
    /\ task["e1"].res.path = "direct"
    /\ ResultOf("e1") = {}
    /\ db = EmptyDb
    /\ dbInitPromise["ext"] = "resolved"
    /\ faults = 0

\* the fields of PanelLayout and FloatingButtonLayout
LayoutFields == {"x", "y", "width", "height", "visible", "minimized"}

\* C16: what loadLayout and loadButtonLayout return has no id field, and no
\* field that is not a field of a layout.
C16_LoadedLayoutIsClean ==
    \A t \in Tasks :
        (task[t].pc = "done" /\ task[t].op \in {"loadLayout", "loadButtonLayout"})
        => \A p \in ResultOf(t) : p[1] \in LayoutFields

\* the step is the return of task t's operation (a call made when the
\* initialization is settled may return in the step that makes it)
Returns(t) ==
    /\ task'[t].pc = "done"
    /\ \/ task[t].pc # "done"
       \/ /\ calls'[Ctx(t)] # calls[Ctx(t)]
          /\ t = "e2" => Busy("e1")

OwnTable(op) ==
    CASE op \in {"loadNote", "saveNote"} -> "notes"
      [] op \in {"loadLayout", "saveLayout"} -> "layout"
      [] OTHER -> "buttonLayout"

OwnKey(op) ==
    CASE op \in {"loadNote", "saveNote"} -> "cs_note"
      [] op \in {"loadLayout", "saveLayout"} -> "cs_layout"
      [] OTHER -> "cs_button_layout"

\* the operation a storage message stands for
OpOfType(type) ==
    CASE type = "storage:getNote" -> "loadNote"
      [] type = "storage:saveNote" -> "saveNote"
      [] type = "storage:getLayout" -> "loadLayout"
      [] type = "storage:saveLayout" -> "saveLayout"
      [] type = "storage:getButtonLayout" -> "loadButtonLayout"
      [] OTHER -> "saveButtonLayout"

\* two page-local stores hold the same entries, the one under k apart
LsAgreeExcept(ls1, ls2, k) ==
    \A x \in ((DOMAIN ls1) \cup (DOMAIN ls2)) \ {k} :
        x \in DOMAIN ls1 /\ x \in DOMAIN ls2 /\ ls1[x] = ls2[x]

\* only the table and the page-local key of op, in context c, may change
OnlyOwnRecord(op, c) ==
    /\ \A tb \in TableNames \ {OwnTable(op)} : db'[tb] = db[tb]
    /\ \A d \in Contexts \ {c} : localStorage'[d] = localStorage[d]
    /\ LsAgreeExcept(localStorage[c], localStorage'[c], OwnKey(op))
    /\ OwnKey(op) # MIGRATION_FLAG_KEY

\* the step is the broker's handling of a storage message
BrokerHandles == chan # <<>> /\ chan' = Tail(chan) /\ stuck' = stuck

\* C18: the return of a facade operation changes at most the table and the
\* page-local key of its own record type, in its own context, and so does
\* the broker's handling of a message for the table; a load changes nothing;
\* the migration flag is written by neither.
C18_RecordsAreIndependent ==
    [][/\ \A t \in Tasks :
            Returns(t) =>
                /\ OnlyOwnRecord(task'[t].op, Ctx(t))
                /\ ~IsSave(task'[t].op) => (db' = db /\ localStorage' = localStorage)
       /\ BrokerHandles =>
            /\ OnlyOwnRecord(OpOfType(Head(chan).type), "cs")
            /\ localStorage' = localStorage
            /\ ~IsSave(OpOfType(Head(chan).type)) => db' = db]_vars

\* a note saved through the broker and a button layout saved by the fallback
\* next to it, the other records being as they were
C18_Witness ==
    /\ db.notes = {{<<"id", 1>>, <<"content", "a">>}}
    /\ db.layout = {}
    /\ db.buttonLayout = {}
    /\ task["c1"].pc = "done"
    /\ task["c1"].op = "saveButtonLayout"
    /\ task["c1"].res.path = "fallback"
    /\ DOMAIN localStorage["cs"] = {"cs_button_layout"}

\* the step is the migration transaction's commit
MigrationCommits == dbInitPromise["ext"] = "reading" /\ migLog' = "committed"

\* the table tb changes in the step by a save of arg on the store's side
SaveWrites(tb) ==
    \/ \E t \in ExtTasks :
          /\ Returns(t)
          /\ task'[t].res.path = "direct"
          /\ IsSave(task'[t].op)
          /\ OwnTable(task'[t].op) = tb
          /\ db'[tb] = {IF tb = "notes"
                        THEN {<<"id", 1>>, <<"content", task'[t].arg[2]>>}
                        ELSE task'[t].arg[2] \cup {<<"id", 1>>}}
    \/ /\ BrokerHandles
       /\ IsSave(OpOfType(Head(chan).type))
       /\ OwnTable(OpOfType(Head(chan).type)) = tb
       /\ db'[tb] = {IF tb = "notes"
                     THEN Head(chan).payload \cup {<<"id", 1>>}
                     ELSE Get(Head(chan).payload, "layout") \cup {<<"id", 1>>}}

\* the entry of context c under a record key k changes in the step by a
\* save that fell back, which stores its own argument
FallbackWrites(c, k) ==
    \E t \in Tasks :
        /\ Ctx(t) = c
        /\ Returns(t)
        /\ task'[t].res.path = "fallback"
        /\ IsSave(task'[t].op)
        /\ OwnKey(task'[t].op) = k
        /\ localStorage'[c][k] = TextOf(task'[t].op, task'[t].arg[2])

LsChangesAt(c, k) ==
    \/ (k \in DOMAIN localStorage[c]) # (k \in DOMAIN localStorage'[c])
    \/ k \in DOMAIN localStorage[c] /\ localStorage'[c][k] # localStorage[c][k]

\* C19: an operation that returns from its own path (the store in the
\* extension page, the broker's answer in the content script) leaves every
\* page-local entry as it was; one that returns from its catch block leaves
\* the store as it was; a table changes only by a save's put of the save's
\* own argument or by the migration's commit, and a page-local record entry
\* only by a fallen-back save's write of its own argument.
C19_NeverReconciled ==
    [][/\ \A t \in Tasks :
            Returns(t) =>
                /\ task'[t].res.path \in {"direct", "broker"} =>
                        localStorage' = localStorage
                /\ task'[t].res.path \in {"fallback", "swallowed"} => db' = db
       /\ \A tb \in TableNames :
            db'[tb] # db[tb] => (SaveWrites(tb) \/ MigrationCommits)
       /\ \A c \in Contexts, k \in {"cs_note", "cs_layout", "cs_button_layout"} :
            LsChangesAt(c, k) => FallbackWrites(c, k)]_vars

\* the note is "a" in the store and "b" under cs_note of the extension
\* page: the second save fell back, and neither value was carried over
C19_Witness ==
    /\ db.notes = {{<<"id", 1>>, <<"content", "a">>}}
    /\ LsHas(localStorage["ext"], "cs_note")
    /\ localStorage["ext"]["cs_note"] = "b"
    /\ \E t \in ExtTasks : /\ task[t].pc = "done"
                           /\ task[t].op = "saveNote"
                           /\ task[t].res.path = "fallback"

\* the completion flag is set in the page-local store ls
FlagSet(ls) ==
    /\ "cs_migrated_to_dexie" \in DOMAIN ls
    /\ ls["cs_migrated_to_dexie"] = "true"

\* the table a legacy key is migrated to
LegacyTable(k) == IF k = "content" THEN "notes" ELSE k

\* the step that sets the flag is the end of a migration run whose legacy
\* read succeeded and whose transaction committed every put: nothing failed
\* in the step, each legacy value read is the row of its table, and the run
\* goes on to the removal of the legacy keys
FlagSetByCommit ==
    /\ dbInitPromise["ext"] = "reading"
    /\ dbInitPromise'["ext"] = "clearing"
    /\ faults' = faults
    /\ \A k \in DOMAIN legacy : db'[LegacyTable(k)] = {LegacyRow(LegacyTable(k))}

C20_FlagStep ==
    \A c \in Contexts :
        /\ FlagSet(localStorage[c]) => FlagSet(localStorage'[c])
        /\ (~FlagSet(localStorage[c]) /\ FlagSet(localStorage'[c]))
              => (c = "ext" /\ FlagSetByCommit)

\* while the flag is set, a migration has run, and a legacy value still
\* present has its table filled
C20_FlagState ==
    \A c \in Contexts :
        FlagSet(localStorage[c]) =>
            /\ c = "ext"
            /\ migLog # "none"
            /\ \A k \in DOMAIN legacy : db[LegacyTable(k)] # {}

\* C20: the completion flag is set only by the step in which a migration
\* transaction commits, never by a run whose legacy read failed, whose
\* transaction aborted or that found the runtime invalid; once set it stays
\* set.
C20_FlagOnlyAfterCommit == []C20_FlagState /\ [][C20_FlagStep]_vars

\* the three legacy values were migrated, the flag set and the keys removed
C20_Witness ==
    /\ FlagSet(localStorage["ext"])
    /\ migLog = "cleared"
    /\ migCommits = 1
    /\ DOMAIN legacy = {}
    /\ db = [notes |-> {{<<"id", 1>>, <<"content", "old">>}},
             layout |-> {{<<"id", 1>>, <<"x", 1>>, <<"y", 2>>, <<"visible", TRUE>>}},
             buttonLayout |-> {{<<"id", 1>>, <<"x", 3>>, <<"y", 4>>}}]

\* C21: whenever the removal of the legacy keys has been issued and has not
\* yet settled, the completion flag reads as set.
C21_ClearOnlyAfterFlag ==
    dbInitPromise["ext"] = "clearing" => FlagSet(localStorage["ext"])

\* the step ends a migration run whose batched legacy read failed
ReadFailedStep == dbInitPromise["ext"] = "reading" /\ migLog' = "readFailed"

\* the step is the settling of an open that nothing disturbs, in a process
\* started after a migration run whose legacy read failed
OpensAfterReadFailed ==
    /\ dbInitPromise["ext"] = "opening"
    /\ dbInitPromise'["ext"] # "opening"
    /\ migLog = "readFailed"
    /\ ~FlagSet(localStorage["ext"])
    /\ faults' = faults
    /\ restarts' = restarts

\* C22: when the batched legacy read fails, the run ends without raising:
\* the initialization resolves, no table is written, the flag is not
\* written and the legacy keys stay; the next initialization, finding the
\* flag unset, reads the legacy store again.
C22_FailedReadAbortsQuietly ==
    [][/\ ReadFailedStep =>
            /\ db' = db
            /\ localStorage' = localStorage
            /\ legacy' = legacy
            /\ dbInitPromise'["ext"] = "resolved"
            /\ \A t \in ExtTasks :
                    task[t].pc = "awaitInit" => task'[t].pc = "initOk"
       /\ OpensAfterReadFailed => dbInitPromise'["ext"] = "reading"]_vars

\* after a failed read and a reload, the migration is running again over
\* the legacy values that were left
C22_Witness ==
    /\ restarts = 1
    /\ faults = 1
    /\ migLog = "reading"
    /\ dbInitPromise["ext"] = "reading"
    /\ DOMAIN legacy = LegacyKeys
    /\ db = EmptyDb
    /\ ~FlagSet(localStorage["ext"])
    /\ migCommits = 0

\* C23: a migration run is reading the legacy store, or has gone on to its
\* writes, only in the extension page and only while the completion flag is
\* not set.
C23_MigratesOnlyUnflagged ==
    /\ dbInitPromise["cs"] \notin {"opening", "reading", "clearing"}
    /\ dbInitPromise["ext"] = "reading" => ~FlagSet(localStorage["ext"])

\* the row { id: 1, ... } a legacy key's value is copied to
CopiedRow(k) ==
    CASE k = "content" -> {<<"id", 1>>, <<"content", "old">>}
      [] k = "layout" -> {<<"id", 1>>, <<"x", 1>>, <<"y", 2>>, <<"visible", TRUE>>}
      [] OTHER -> {<<"id", 1>>, <<"x", 3>>, <<"y", 4>>}

\* C24: when the migration transaction commits, the table of each legacy
\* key that has a value holds that value as its one row, and the table of
\* each legacy key that has none is as it was: empty if it was empty.
C24_CopiesPresentKeysOnly ==
    [][MigrationCommits =>
          \A k \in {"content", "layout", "buttonLayout"} :
              IF k \in DOMAIN legacy
              THEN db'[LegacyTable(k)] = {CopiedRow(k)}
              ELSE db'[LegacyTable(k)] = db[LegacyTable(k)]]_vars

\* only content had a legacy value: the note was copied, and the two layout
\* tables have no row
C24_Witness ==
    /\ migLog = "committed"
    /\ DOMAIN legacy = {"content"}
    /\ db = [notes |-> {{<<"id", 1>>, <<"content", "old">>}},
             layout |-> {}, buttonLayout |-> {}]
    /\ FlagSet(localStorage["ext"])
    /\ migCommits = 1

\* the migration of this run of the extension page gives up: the legacy read
\* or the transaction failed
MigrationFails ==
    /\ dbInitPromise["ext"] = "reading"
    /\ migLog' \in {"readFailed", "txFailed"}

\* the migration failed since the extension page was last loaded
MigrationFailedHere == migLog \in {"readFailed", "txFailed"} /\ stats.migs >= 1

\* a facade operation is called in the extension page
ExtCalls == calls'["ext"] # calls["ext"]

C25_FailureResolves ==
    MigrationFails =>
        /\ dbInitPromise'["ext"] = "resolved"
        /\ \A t \in {"e1", "e2"} :
                task[t].pc = "awaitInit" => task'[t].pc = "initOk"

C25_LaterCallsGoDirect ==
    (MigrationFailedHere /\ ExtCalls) =>
        /\ dbInitPromise'["ext"] = "resolved"
        /\ stats' = stats
        /\ migLog' = migLog
        /\ \E t \in {"e1", "e2"} : task'[t].pc = "done"
        /\ \A t \in {"e1", "e2"} :
                (task'[t].pc = "done" /\ faults' = faults) =>
                    task'[t].res.path = "direct"

C25_StaysResolved ==
    MigrationFailedHere => dbInitPromise["ext"] = "resolved" /\ stats.migs = 1

\* C25: a failed legacy read or a failed transaction resolves the
\* initialization: the callers waiting on it continue as after a success,
\* the handle stays resolved while the page lives, a later call in the
\* extension page neither opens nor migrates again and, unless its own store
\* access throws, returns by the direct path.
C25_MigrationFailureIsSwallowed ==
    []C25_StaysResolved /\ [][C25_FailureResolves /\ C25_LaterCallsGoDirect]_vars

\* the transaction failed during the only open of this page; the second
\* call was made after it and returned by the direct path
C25_Witness ==
    /\ migLog = "txFailed"
    /\ restarts = 0
    /\ stats = [opens |-> 1, migs |-> 1, openFails |-> 0]
    /\ calls["ext"] = 2
    /\ task["e2"].pc = "idle"
    /\ task["e1"].pc = "done"
    /\ task["e1"].res.path = "direct"
    /\ faults = 1

\* migrateFromChromeStorage is entered in this step
MigrationStarts == stats'.migs > stats.migs

\* a call in the extension page returns in this step from its direct branch
ReturnsDirect(t) == Returns(t) /\ task'[t].res.path = "direct"

C26_Gate ==
    /\ MigrationStarts =>
            /\ dbInitPromise["ext"] = "opening"
            /\ stats'.openFails = stats.openFails
            /\ stats.opens > stats.openFails
    /\ \A t \in {"e1", "e2"} :
            ReturnsDirect(t) => dbInitPromise["ext"] = "resolved"
    /\ db' # db => dbInitPromise["ext"] \in {"reading", "resolved"}

C26_NoneReadyEarly ==
    \A t \in {"e1", "e2"} :
        task[t].pc = "initOk" => dbInitPromise["ext"] = "resolved"

\* C26: in the extension page the migration is entered only in the step in
\* which an open that was issued settles with success; an operation does its
\* get or put on the store, and returns from it, only when the handle is
\* resolved, that is after the open and the migration attempt have both
\* finished; before that the store changes only by the migration's own
\* transaction.
C26_InitializationGate == []C26_NoneReadyEarly /\ [][C26_Gate]_vars

\* the second call was made while the first was still waiting for the
\* initialization; it returned by the direct path after the migration ran
\* to its end
C26_Witness ==
    /\ restarts = 0
    /\ migLog = "cleared"
    /\ stats = [opens |-> 1, migs |-> 1, openFails |-> 0]
    /\ calls["ext"] = 2
    /\ task["e2"].pc = "done"
    /\ task["e2"].res.path = "direct"

\* ------------------------------------------------------- unawaited saves

\* One caller issues two calls, the second before the first has returned,
\* as the panel does with saveLayout (onLayoutChange, then togglePanel).
\* e1 and e2 are the two calls of the extension page, c1 and c2 those of the
\* content script.  Nothing fails, and what the platform is asked to do it
\* does in the order asked: awaiters of one promise resume in the order they
\* began to wait, requests on the store run in the order issued, and the
\* broker handles its messages, the open included, in the order sent.
MaxPairCalls == 2

Partner(t) ==
    CASE t = "e1" -> "e2"
      [] t = "e2" -> "e1"
      [] t = "c1" -> "c2"
      [] OTHER -> "c1"

InitPair == InitWith([calls |-> MaxPairCalls, faults |-> 0, restarts |-> 0])

NextPair ==
    \/ \E t \in Tasks, op \in Ops : \E arg \in ArgsOf(op) :
            /\ t \in {"e1", "c1"} => ~Busy(Partner(t))
            /\ Call(t, op, arg)
    \/ \E t \in Tasks : Resume(t)
    \/ OpenSettles
    \/ LegacyReadSettles
    \/ LegacyClearSettles
    \/ BrokerStep
    \/ \E t \in Tasks : CallbackStep(t)

SpecPair == InitPair /\ [][NextPair]_vars

\* the one row of its table after saveNote(arg) or a layout save of arg
PutRow(op, arg) ==
    IF op = "saveNote" THEN {<<"id", 1>>, <<"content", arg>>}
    ELSE {<<"id", 1>>} \cup arg

\* the table a save operation or a save message writes
SaveTable(name) ==
    CASE name \in {"saveNote", "storage:saveNote"} -> "notes"
      [] name \in {"saveLayout", "storage:saveLayout"} -> "layout"
      [] OTHER -> "buttonLayout"

\* the extension page's second call does its put in this step
SecondPutsDirect ==
    /\ Returns("e2")
    /\ task'["e2"].res.path = "direct"
    /\ task'["e2"].op \in {"saveNote", "saveLayout", "saveButtonLayout"}

\* the broker handles the save message of the content script's second call
SecondPutsByBroker ==
    /\ BrokerHandles
    /\ Head(chan).from = "c2"
    /\ Head(chan).type \in {"storage:saveNote", "storage:saveLayout",
                            "storage:saveButtonLayout"}

C27_DirectInOrder ==
    SecondPutsDirect =>
        /\ ~Busy("e1")
        /\ db'[SaveTable(task'["e2"].op)]
              = {PutRow(task'["e2"].op, task'["e2"].arg[2])}

C27_BrokerInOrder ==
    SecondPutsByBroker =>
        /\ \A i \in 1..Len(chan) : chan[i].from # "c1"
        /\ task["c1"].pc # "awaitResp" \/ task["c1"].hasResp
        /\ task["c2"].pc = "awaitResp"
        /\ db'[SaveTable(Head(chan).type)]
              = {PutRow(task["c2"].op, task["c2"].arg[2])}

MaxMsgCalls == 2
MaxMsgFaults == 1

InitMsg == InitWith([calls |-> MaxMsgCalls, faults |-> MaxMsgFaults, restarts |-> 0])

NextMsg ==
    \/ \E t \in Callers, op \in Ops : \E arg \in ArgsOf(op) : Call(t, op, arg)
    \/ \E c \in Contexts, type \in RawTypes : SendRaw(c, type)
    \/ \E t \in Tasks : Resume(t)
    \/ OpenSettles
    \/ LegacyReadSettles
    \/ LegacyClearSettles
    \/ BrokerStep
    \/ BrokerHangs
    \/ \E t \in Tasks : PortError(t)
    \/ \E t \in Tasks : CallbackStep(t)

SpecMsg == InitMsg /\ [][NextMsg]_vars

\* the step is the failure of the port of the caller whose request is the
\* oldest
HeadPortFails ==
    /\ Head(chan).from \in Tasks
    /\ ~task[Head(chan).from].lastError
    /\ task'[Head(chan).from].lastError
    /\ faults' = faults + 1
    /\ db' = db /\ dbOpened' = dbOpened /\ sent' = sent

\* the step takes the oldest message, of a sender that does not wait, and
\* what the listener awaits for it never settles
HeadHangs ==
    /\ Head(chan).from \notin Tasks
    /\ faults' = faults + 1
    /\ task' = task /\ dbInitPromise' = dbInitPromise
    /\ db' = db /\ dbOpened' = dbOpened /\ sent' = sent

\* the step is a run of the listener's async body to its end, for the
\* oldest message
ListenerRuns == BrokerHandles /\ ~HeadPortFails /\ ~HeadHangs

\* what a storage: case answers when nothing throws
CaseResult(type, d) ==
    CASE type = "storage:getNote" ->
            IF d.notes = {} THEN {<<"content", "">>}
            ELSE LET n == CHOOSE r \in d.notes : <<"id", 1>> \in r
                 IN  {p \in n : p[1] = "content"}
      [] type = "storage:getLayout" ->
            IF d.layout = {} THEN {}
            ELSE LET l == CHOOSE r \in d.layout : <<"id", 1>> \in r
                 IN  {p \in l : p[1] # "id"}
      [] type = "storage:getButtonLayout" ->
            IF d.buttonLayout = {} THEN {}
            ELSE LET l == CHOOSE r \in d.buttonLayout : <<"id", 1>> \in r
                 IN  {p \in l : p[1] # "id"}
      [] type \in {"storage:saveNote", "storage:saveLayout",
                   "storage:saveButtonLayout"} -> {<<"ok", TRUE>>}
      [] OTHER -> {<<"error", "Unknown storage action">>}

C28_OneResponse ==
    ListenerRuns =>
        LET m == Head(chan)
            storage == m.type \in {"storage:getNote", "storage:saveNote",
                                   "storage:getLayout", "storage:saveLayout",
                                   "storage:getButtonLayout",
                                   "storage:saveButtonLayout", "storage:bogus"}
            threw == storage /\ faults' # faults
        IN  /\ Len(sent') = 1
            /\ threw => \E p \in sent'[1] : p[1] = "error" /\ p[2] \in STRING
            /\ (storage /\ ~threw) => sent'[1] = CaseResult(m.type, db)
            /\ ~storage => sent'[1] = {<<"ok", TRUE>>}
            /\ (m.from \in Tasks /\ task[m.from].pc = "awaitResp") =>
                    /\ task'[m.from].pc = "awaitResp"
                    /\ task'[m.from].hasResp
                    /\ ~task'[m.from].lastError
                    /\ task'[m.from].resp = sent'[1]

\* C28: a run of the listener's async body that comes to its end has
\* called sendResponse once, in the step that ends it: with the case's
\* result when nothing threw, with an object holding an error string when
\* the open, the get or the put threw, with the error 'Unknown storage
\* action' for a storage: type no case handles, and with { ok: true } for a
\* message that is not a storage: one; the port was kept open, so a caller
\* waiting for the answer is handed that response and no lastError.
C28_RespondsOnceAfterHandling == [][C28_OneResponse]_vars

\* the content script's saveNote was handled and acknowledged to the
\* waiting caller, and then a storage: message no case handles was answered
\* with the error
C28_Witness ==
    /\ sent = <<{<<"error", "Unknown storage action">>}>>
    /\ chan = <<>>
    /\ dbOpened
    /\ task["c1"].pc = "awaitResp"
    /\ task["c1"].op = "saveNote"
    /\ task["c1"].hasResp
    /\ task["c1"].resp = {<<"ok", TRUE>>}
    /\ db.notes = {{<<"id", 1>>, <<"content", "a">>}}

\* C29: no step empties a table: a table that holds a row holds one after
\* every step, whether the step is a facade operation, the broker's handling
\* of a message, a migration run that commits or one that fails, or a
\* restart.
C29_RecordsNeverDeleted ==
    [][\A tb \in {"notes", "layout", "buttonLayout"} :
            db[tb] # {} => db'[tb] # {}]_vars

\* the note was saved, and then a migration run whose transaction failed
\* at its second put was rolled back: the saved note is still there
C29_Witness ==
    /\ migLog = "txFailed"
    /\ db.notes # {}
    /\ "notes" \in DOMAIN lastSaved
    /\ db.layout = {}
    /\ DOMAIN legacy = {"content", "layout", "buttonLayout"}

\* ------------------------------------------------------------ the panel

\* The content script's panel is hidden and shown with togglePanel; nothing
\* fails.  A toggle may come before the save of the one before it has been
\* answered.
MaxToggleCalls == 4

InitToggle == InitWith([calls |-> MaxToggleCalls, faults |-> 0, restarts |-> 0])

NextToggle ==
    \/ \E t \in {"c1", "c2"} :
            /\ t = "c1" => ~Busy("c2")
            /\ togglePanel(t)
    \/ BrokerStep
    \/ \E t \in {"c1", "c2"} : CallbackStep(t)

SpecToggle == InitToggle /\ [][NextToggle]_vars

\* the panel was hidden and is shown again, and the broker has handled
\* every save
ShownAgain ==
    /\ hostDisplay = "block"
    /\ calls["cs"] >= 2
    /\ chan = <<>>
    /\ \A t \in {"c1", "c2"} : task[t].pc = "awaitResp" => task[t].hasResp

\* C30: when the panel has been hidden and shown again, the stored panel
\* layout holds the x, y, width and height saved when it was hidden, with
\* visible true and minimized false.
C30_ShowKeepsGeometry ==
    ShownAgain =>
        \E r \in db.layout :
            {<<"x", 10>>, <<"y", 20>>, <<"width", 100>>, <<"height", 200>>,
             <<"visible", TRUE>>, <<"minimized", FALSE>>} \subseteq r

\* ------------------------------------------------------- a failing path

\* Awaited saveNote and loadNote calls while the store, the broker and the
\* port may fail and work again; localStorage never throws.
MaxFlakyCalls == 3
MaxFlakyFaults == 2

NoteOps == {"loadNote", "saveNote"}

\* no localStorage call of the step threw: not the getItem or setItem of a
\* catch block, not the flag's getItem and not its setItem
LocalStoreWorks ==
    /\ \A t \in Tasks : task'[t].res.path # "swallowed"
    /\ (dbInitPromise["ext"] = "opening" /\ dbInitPromise'["ext"] # "opening"
            /\ faults' # faults)
        => (dbInitPromise'["ext"] = "null" \/ migLog' = "invalid")
    /\ (dbInitPromise["ext"] = "reading" /\ migLog' = "committed")
        => (/\ "cs_migrated_to_dexie" \in DOMAIN localStorage'["ext"]
            /\ localStorage'["ext"]["cs_migrated_to_dexie"] = "true")

InitFlaky ==
    InitWith([calls |-> MaxFlakyCalls, faults |-> MaxFlakyFaults, restarts |-> 0])

NextFlaky ==
    \/ \E t \in Callers, op \in NoteOps : \E arg \in ArgsOf(op) :
            AllIdle /\ Call(t, op, arg) /\ LocalStoreWorks
    \/ \E t \in Tasks : Resume(t) /\ LocalStoreWorks
    \/ OpenSettles /\ LocalStoreWorks
    \/ LegacyReadSettles /\ LocalStoreWorks
    \/ LegacyClearSettles
    \/ BrokerStep
    \/ \E t \in Tasks : PortError(t)
    \/ \E t \in Tasks : CallbackStep(t) /\ LocalStoreWorks

SpecFlaky == InitFlaky /\ [][NextFlaky]_vars

\* C31: when every call so far was made by one context, a loadNote that
\* has returned gives the content of the last saveNote that returned.
C31_ReadYourWrites ==
    \A t \in Tasks :
        (/\ task[t].pc = "done"
         /\ task[t].op = "loadNote"
         /\ \A c \in Contexts \ {Ctx(t)} : calls[c] = 0
         /\ "notes" \in DOMAIN lastSaved)
        => task[t].res.val[2] = lastSaved["notes"]

\* what op(arg) does to store d and returns on the direct path, nothing
\* failing
C32_DirectRun(op, arg, d) ==
    LET r == DirectAccess(op, arg, d, FALSE)
    IN  [db |-> r.db, val |-> r.val]

\* the same on the delegated path: the message is sent, the broker handles
\* it on d and answers, and the facade returns from the response
C32_DelegatedRun(op, arg, d) ==
    LET m == MessageOf(op, arg)
        b == BrokerStorage(m.type, m.payload, d, dbOpened, FALSE, FALSE)
        cb == callBackground(FALSE, b.resp)
    IN  [db |-> b.db, val |-> DelegatedResult(op, cb.val)]

\* C32: on every store the program reaches, each of the six operations, with
\* each argument, leaves the same three tables and returns the same value
\* whether it runs on the direct path or through the broker; so the same
\* sequence of operations from the same store gives the same store and the
\* same load results on both paths.
C32_PathsAgree ==
    \A op \in Ops : \A arg \in KeyedArgsOf(op) :
        /\ C32_DirectRun(op, arg, db).db = C32_DelegatedRun(op, arg, db).db
        /\ C32_DirectRun(op, arg, db).val = C32_DelegatedRun(op, arg, db).val

\* the extension page saved the full layout on the direct path, and the
\* content script's loadLayout then returned it through the broker
C32_Witness ==
    /\ calls = [ext |-> 1, cs |-> 1]
    /\ task["c1"].pc = "done"
    /\ task["c1"].op = "loadLayout"
    /\ task["c1"].res.path = "broker"
    /\ task["c1"].res.val[2] = {<<"x", 10>>, <<"y", 20>>, <<"width", 100>>,
                                <<"height", 200>>, <<"visible", TRUE>>}
    /\ lastSaved["layout"] = task["c1"].res.val[2]
    /\ migLog # "none"

\* the oldest message is one the listener treats as a storage request
C33_HeadIsStorage ==
    Head(chan).type \in {"storage:getNote", "storage:saveNote",
                         "storage:getLayout", "storage:saveLayout",
                         "storage:getButtonLayout", "storage:saveButtonLayout",
                         "storage:bogus"}

C33_FlagFollowsOpen ==
    /\ (~dbOpened /\ dbOpened') => (ListenerRuns /\ C33_HeadIsStorage)
    /\ (dbOpened /\ ListenerRuns) => dbOpened'
    /\ (/\ ListenerRuns
        /\ ~dbOpened
        /\ Head(chan).type = "storage:bogus"
        /\ sent' = <<{<<"error", "Error">>}>>) => ~dbOpened'

C33_FailedOpen ==
    (ListenerRuns /\ C33_HeadIsStorage /\ ~dbOpened') =>
        /\ ~dbOpened
        /\ faults' = faults + 1
        /\ db' = db
        /\ sent' = <<{<<"error", "Error">>}>>

C33_AccessAfterOpen ==
    (/\ ListenerRuns
     /\ C33_HeadIsStorage
     /\ \/ db' # db
        \/ \E p \in sent'[1] : p[1] \in {"content", "ok", "x", "y", "width",
                                         "height", "visible", "order"})
    => dbOpened'

\* C33: the broker's flag goes up only in a run of the listener on a storage
\* message, and never comes down in one; a request for an unknown storage
\* action, which touches the store only by opening it, leaves the flag down
\* when it is answered with a thrown error; a run that leaves the flag down is
\* one whose open was rejected: it changes no table and answers with an error
\* response, and the next storage request finds the flag down and opens
\* again; a run that writes a table or answers with what it read leaves the
\* flag up, the open having been awaited before the switch.
C33_OpenBeforeAccess ==
    [][C33_FlagFollowsOpen /\ C33_FailedOpen /\ C33_AccessAfterOpen]_vars

\* the first storage request met a rejected open and was answered with an
\* error, the flag is down, and the next storage request is waiting
C33_Witness ==
    /\ ~dbOpened
    /\ sent = <<{<<"error", "Error">>}>>
    /\ faults = 1
    /\ chan # <<>>
    /\ Head(chan).type = "storage:saveNote"
    /\ db.notes = {}

\* the step takes the oldest message off the channel, whatever the listener
\* does with it
C34_HeadTaken ==
    /\ chan # <<>>
    /\ Len(chan') = Len(chan) - 1
    /\ \A i \in 1..Len(chan') : chan'[i].type = chan[i + 1].type

C34_UnknownLeavesTables ==
    (/\ C34_HeadTaken
     /\ Head(chan).type \notin {"storage:getNote", "storage:saveNote",
                                "storage:getLayout", "storage:saveLayout",
                                "storage:getButtonLayout",
                                "storage:saveButtonLayout"})
    => /\ db'.notes = db.notes
       /\ db'.layout = db.layout
       /\ db'.buttonLayout = db.buttonLayout

C34_OthersDoNotOpen ==
    (C34_HeadTaken /\ Head(chan).type \in {"close-notes-tab", "ping"})
    => dbOpened' = dbOpened

\* C34: a message that is none of the six storage actions, whether its type
\* starts with storage: or not, is taken off the channel with the three
\* tables as they were; one whose type does not start with storage: also
\* leaves the broker's flag as it was: the store is not opened for it.
C34_ForeignMessagesFrame ==
    [][C34_UnknownLeavesTables /\ C34_OthersDoNotOpen]_vars

\* the extension page saved note "a" itself, then a message that is not a
\* storage message was answered: the note is intact and the broker has not
\* opened the store
C34_Witness ==
    /\ ~dbOpened
    /\ sent = <<{<<"ok", TRUE>>}>>
    /\ chan = <<>>
    /\ db.notes = {{<<"id", 1>>, <<"content", "a">>}}

\* ---------------------------------------------------------------------
\* The panel's debounced save.  Time is in milliseconds; a timer runs its
\* callback at the time it is due, before any event handled at that time or
\* later.

\* the inputs a run of the panel handles
MaxInputs == 3

\* the second argument of setTimeout in debouncedSave
DebounceDelay == 300

\* the longest time that passes between two events
TickMs == DebounceDelay \div 2

\* target.innerText || ''
PanelTexts == NoteInputs \cup {""}

\* clearTimeout(id): the timer with that id, if it is still pending, is gone
clearTimeout(timers, id) == {tm \in timers : tm.id # id}

\* a debouncedSave that does not clear the timer it replaces
debouncedSave_NoClear(p, text) ==
    [p EXCEPT !.timers = @ \cup {[id |-> p.nextId, text |-> text,
                                  due |-> p.now + DebounceDelay]},
              !.saveTimeout = p.nextId,
              !.nextId = @ + 1]

\* debouncedSave(text): if (saveTimeout) clearTimeout(saveTimeout);
\* saveTimeout = setTimeout(() => saveNote(text), 300)
debouncedSave(p, text) ==
    [p EXCEPT !.timers = (IF p.saveTimeout # 0 THEN clearTimeout(@, p.saveTimeout)
                          ELSE @)
                         \cup {[id |-> p.nextId, text |-> text,
                                due |-> p.now + DebounceDelay]},
              !.saveTimeout = p.nextId,
              !.nextId = @ + 1]

\* an onMount cleanup that leaves the timer alone
Cleanup_KeepsTimer(p) == [p EXCEPT !.mounted = FALSE]

\* the function onMount returns: if (saveTimeout) clearTimeout(saveTimeout)
Cleanup(p) ==
    [p EXCEPT !.mounted = FALSE,
              !.timers = IF p.saveTimeout # 0 THEN clearTimeout(@, p.saveTimeout)
                         ELSE @]

\* a timer is due
TimerDue == \E tm \in panel.timers : tm.due <= panel.now

\* handleInput: content = target.innerText || ''; debouncedSave(content)
handleInput(text) ==
    /\ panel.mounted
    /\ panel.inputs < MaxInputs
    /\ ~TimerDue
    /\ panel' = [debouncedSave([panel EXCEPT !.content = text], text)
                    EXCEPT !.inputs = @ + 1,
                           !.burst = IF /\ panel.lastInput >= 0
                                        /\ panel.now - panel.lastInput < DebounceDelay
                                     THEN @ + 1 ELSE 1,
                           !.lastInput = panel.now,
                           !.savesSince = 0]
    /\ UNCHANGED <<db, legacy, localStorage, dbInitPromise, task, queue, chan, stuck,
                   dbOpened, migLog, stats, migCommits, calls, faults, restarts,
                   lastSaved, budget, sent, hostDisplay>>

\* a due timer runs its callback: saveNote(text), not awaited
TimerFires(t) ==
    /\ Ctx(t) = "cs"
    /\ \E tm \in panel.timers :
        /\ tm.due <= panel.now
        /\ FacadeCall(t, "saveNote", tm.text)
        /\ panel' = [panel EXCEPT !.timers = @ \ {tm},
                                  !.savesSince = @ + 1,
                                  !.savedText = tm.text,
                                  !.firedAfterUnmount = @ \/ ~panel.mounted]
    /\ UNCHANGED hostDisplay

\* time passes, up to the next timer's due time; the clock stops once every
\* input can have been saved
Tick ==
    /\ ~TimerDue
    /\ panel.now < (MaxInputs + 1) * DebounceDelay
    /\ LET next == panel.now + TickMs
           dues == {tm.due : tm \in panel.timers}
       IN  panel' = [panel EXCEPT !.now = IF \E d \in dues : d < next
                                          THEN CHOOSE d \in dues :
                                                  \A e \in dues : d <= e
                                          ELSE next]
    /\ UNCHANGED <<db, legacy, localStorage, dbInitPromise, task, queue, chan, stuck,
                   dbOpened, migLog, stats, migCommits, calls, faults, restarts,
                   lastSaved, budget, sent, hostDisplay>>

\* the component is unmounted: the function onMount returned runs
Unmount ==
    /\ panel.mounted
    /\ panel' = Cleanup(panel)
    /\ UNCHANGED <<db, legacy, localStorage, dbInitPromise, task, queue, chan, stuck,
                   dbOpened, migLog, stats, migCommits, calls, faults, restarts,
                   lastSaved, budget, sent, hostDisplay>>

InitDebounce == InitWith([calls |-> MaxInputs, faults |-> 0, restarts |-> 0])

NextDebounce ==
    \/ \E text \in PanelTexts : handleInput(text)
    \/ \E t \in {"c1", "c2"} : TimerFires(t)
    \/ Tick
    \/ Unmount
    \/ BrokerStep
    \/ \E t \in {"c1", "c2"} : CallbackStep(t)

SpecDebounce == InitDebounce /\ [][NextDebounce]_vars

\* the step issues a call of saveNote
C35_SaveIssued ==
    \E t \in Tasks :
        /\ calls' # calls
        /\ task'[t] # task[t]
        /\ task'[t].op = "saveNote"
        /\ task'[t].pc \notin {"idle", "done"}

C35_OneTimer == Cardinality(panel.timers) <= 1

C35_SavedAfterBurst ==
    /\ panel.savesSince <= 1
    /\ (/\ panel.mounted
        /\ panel.lastInput >= 0
        /\ panel.now > panel.lastInput + 300)
       => panel.savesSince = 1 /\ panel.savedText = panel.content

C35_NothingAfterUnmount ==
    ~panel.mounted => panel.timers = {} /\ ~panel.firedAfterUnmount

C35_SaveIsOfLastInput ==
    C35_SaveIssued =>
        /\ panel.mounted
        /\ panel.now = panel.lastInput + 300
        /\ panel.savesSince = 0
        /\ \E t \in Tasks : /\ task'[t] # task[t]
                            /\ task'[t].arg = <<"string", panel.content>>

C35_NoSaveInsideBurst ==
    (/\ panel'.inputs = panel.inputs + 1
     /\ panel.lastInput >= 0
     /\ panel.now - panel.lastInput < 300)
    => /\ panel.savesSince = 0
       /\ calls' = calls

C35_UnmountedIsSilent ==
    (~panel.mounted \/ ~panel'.mounted) => calls' = calls

\* C35: at most one save timer is pending at any time; saveNote is called
\* only 300 ms after the last input, with that input's text, and once; an
\* input handled less than 300 ms after the previous one finds that no call
\* was made in between; once more than 300 ms have passed since the last
\* input of a mounted panel, exactly one call has been made since it, with
\* its text; and from the unmount on no timer is pending and no call is made.
C35_DebouncedSave ==
    /\ [](C35_OneTimer /\ C35_SavedAfterBurst /\ C35_NothingAfterUnmount)
    /\ [][C35_SaveIsOfLastInput /\ C35_NoSaveInsideBurst /\ C35_UnmountedIsSilent]_vars

\* a burst of three inputs, each 150 ms after the previous one, ended with
\* "b"; saveNote was called once since, with "b", and the broker has stored it
C35_Witness ==
    /\ panel.mounted
    /\ panel.burst = 3
    /\ panel.content = "b"
    /\ panel.savesSince = 1
    /\ panel.savedText = "b"
    /\ calls["cs"] = 1
    /\ panel.now > panel.lastInput + 300
    /\ db.notes = {{<<"id", 1>>, <<"content", "b">>}}

\* the panel was unmounted with a timer pending, and time has passed beyond
\* the moment the timer was due
C35_UnmountWitness ==
    /\ ~panel.mounted
    /\ panel.saveTimeout # 0
    /\ panel.savesSince = 0
    /\ panel.now > panel.lastInput + 300

====
